---- MODULE Spec2Model ----
(***************************************************************************)
(* Model of the aeternitas index core: ingest_file / add_revision_and_doc  *)
(* over the revisioned store, rebuild_timeline, the diary and receipt      *)
(* parsers and the cmd_ingest transaction.                                 *)
(*                                                                         *)
(* Python strings are modelled as sequences of one-character strings, so   *)
(* that splitlines, strip, the regular expressions and the date formatting *)
(* are computed and not assumed.  An Optional value is None (the empty     *)
(* tuple) or Some(v) (the one-element tuple), read back with Get.          *)
(***************************************************************************)
EXTENDS Integers, Sequences, FiniteSets, TLC

None == <<>>

Some(v) == <<v>>

Get(o) == o[1]

\* ------------------------------------------------------------------------
\* Characters and strings
\* ------------------------------------------------------------------------

Digits == <<"0", "1", "2", "3", "4", "5", "6", "7", "8", "9">>

IsDigit(c) == \E i \in 1..10 : Digits[i] = c

DigitVal(c) == (CHOOSE i \in 1..10 : Digits[i] = c) - 1

\* str.strip() / regex \s on the characters the model's texts contain
IsSpace(c) == c \in {" ", "\t", "\n"}

\* regex \w on the characters the model's texts contain
IsWordChar(c) == c \notin {" ", "\t", "\n", ".", ",", "-", "/", ":"}

Range(s) == {s[i] : i \in DOMAIN s}

\* int() of a run of decimal digits
RECURSIVE ToInt(_)
ToInt(s) ==
    IF s = <<>> THEN 0
    ELSE 10 * ToInt(SubSeq(s, 1, Len(s) - 1)) + DigitVal(s[Len(s)])

\* f"{n:0{w}d}" for n >= 0
RECURSIVE ZeroPad(_, _)
ZeroPad(n, w) ==
    IF w <= 1 /\ n < 10 THEN <<Digits[n + 1]>>
    ELSE ZeroPad(n \div 10, w - 1) \o <<Digits[(n % 10) + 1]>>

\* the indices that end a line of s: each "\n", and Len(s) + 1 when the last
\* line has no "\n"
LineEnds(s) ==
    SelectSeq([i \in 1..(Len(s) + 1) |-> i],
              LAMBDA i : IF i <= Len(s) THEN s[i] = "\n"
                         ELSE Len(s) > 0 /\ s[Len(s)] # "\n")

SplitAt(s, ends) ==
    [k \in 1..Len(ends) |->
        SubSeq(s, IF k = 1 THEN 1 ELSE ends[k - 1] + 1, ends[k] - 1)]

\* str.splitlines() with "\n" as the only line boundary of the model's texts
splitlines(s) == CHOOSE ls \in {SplitAt(s, ends) : ends \in {LineEnds(s)}} : TRUE

\* "\n".join(lines)
RECURSIVE join(_)
join(lines) ==
    IF lines = <<>> THEN <<>>
    ELSE IF Len(lines) = 1 THEN lines[1]
    ELSE lines[1] \o <<"\n">> \o join(Tail(lines))

\* str.strip()
strip(s) ==
    LET keep == {i \in DOMAIN s : ~IsSpace(s[i])}
    IN  IF keep = {} THEN <<>>
        ELSE SubSeq(s, CHOOSE i \in keep : \A j \in keep : i <= j,
                       CHOOSE i \in keep : \A j \in keep : i >= j)

\* re.sub(r"[ \t]+", " ", s): the last blank of each run stays, as a space
BlankRunEnds(s) ==
    SelectSeq([i \in 1..Len(s) |-> i],
              LAMBDA i : s[i] \in {" ", "\t"} =>
                             (i = Len(s) \/ s[i + 1] \notin {" ", "\t"}))

CollapseAt(s, keep) ==
    [k \in 1..Len(keep) |->
        IF s[keep[k]] \in {" ", "\t"} THEN " " ELSE s[keep[k]]]

CollapseBlanks(s) ==
    CHOOSE c \in {CollapseAt(s, keep) : keep \in {BlankRunEnds(s)}} : TRUE

\* src/aeternitas/common/text.py normalize_ws: re.sub(r"[ \t]+", " ", s).strip()
normalize_ws(s) == strip(CollapseBlanks(s))

\* s[:n]
Prefix(s, n) == SubSeq(s, 1, IF Len(s) < n THEN Len(s) ELSE n)

\* the first index >= i of s that holds no whitespace (Len(s) + 1 if none)
RECURSIVE SkipWs(_, _)
SkipWs(s, i) == IF i <= Len(s) /\ IsSpace(s[i]) THEN SkipWs(s, i + 1) ELSE i

\* whether the characters of s from i on are exactly k digits' worth of digits
DigitsAt(s, i, k) == i + k - 1 <= Len(s) /\ \A j \in i..(i + k - 1) : IsDigit(s[j])

\* ------------------------------------------------------------------------
\* Calendar dates (datetime.date)
\* ------------------------------------------------------------------------

IsLeap(y) == (y % 4 = 0 /\ y % 100 # 0) \/ y % 400 = 0

DaysInMonth(y, m) ==
    IF m = 2 THEN (IF IsLeap(y) THEN 29 ELSE 28)
    ELSE IF m \in {4, 6, 9, 11} THEN 30 ELSE 31

\* datetime.date(y, m, d) does not raise ValueError
ValidDate(y, m, d) ==
    /\ y >= 1 /\ y <= 9999
    /\ m >= 1 /\ m <= 12
    /\ d >= 1 /\ d <= DaysInMonth(y, m)

\* date.isoformat(), and the f"{y:04d}-{mo:02d}-{d:02d}" of ingest_file
isoformat(y, m, d) == ZeroPad(y, 4) \o <<"-">> \o ZeroPad(m, 2) \o <<"-">> \o ZeroPad(d, 2)

\* src/aeternitas/common/timeutil.py iso_date
iso_date(date) == isoformat(date.y, date.m, date.d)

\* title[:160] in flush
TitleMax == 160

\* lines[:10], .{0,20} and lines[:200] in parse_receipt_fields
MerchantLines == 10

TotalGap == 20

RawLinesMax == 200

\* ------------------------------------------------------------------------
\* src/aeternitas/index/parse/diary.py
\* ------------------------------------------------------------------------

WEEKDAYS_FI ==
    { <<"m", "a">>, <<"t", "i">>, <<"k", "e">>, <<"t", "o">>, <<"p", "e">>,
      <<"l", "a">>, <<"s", "u">>, <<"M", "a">>, <<"T", "i">>, <<"K", "e">>,
      <<"T", "o">>, <<"P", "e">>, <<"L", "a">>, <<"S", "u">> }

\* the number (1 or 2, else 0) of digits at i that (\d{1,2})\. takes
DayDigits(s, i) ==
    IF DigitsAt(s, i, 1) /\ i + 1 <= Len(s) /\ s[i + 1] = "." THEN 1
    ELSE IF DigitsAt(s, i, 2) /\ i + 2 <= Len(s) /\ s[i + 2] = "." THEN 2
    ELSE 0

\* DATE_LINE_RE.match(s): None, or Some of the groups [d, mo, y] as matched text
\* (y = None when the optional year group took no part in the match)
DATE_LINE_RE(s) ==
    LET n    == Len(s)
        p0   == IF n >= 3 /\ SubSeq(s, 1, 2) \in WEEKDAYS_FI /\ IsSpace(s[3])
                THEN SkipWs(s, 3) ELSE 1
        k1   == DayDigits(s, p0)
        p1   == p0 + k1 + 1
        k2   == DayDigits(s, p1)
        p2   == p1 + k2 + 1
        q    == SkipWs(s, p2)
        hasY == DigitsAt(s, q, 4)
        r    == IF hasY THEN q + 4 ELSE p2
        r1   == SkipWs(s, r)
        r2   == IF r1 <= n /\ s[r1] = "." THEN r1 + 1 ELSE r1
        r3   == SkipWs(s, r2)
    IN  IF k1 = 0 THEN None
        ELSE IF k2 = 0 THEN None
        ELSE IF r3 # n + 1 THEN None
        ELSE Some([d  |-> SubSeq(s, p0, p0 + k1 - 1),
                   mo |-> SubSeq(s, p1, p1 + k2 - 1),
                   y  |-> IF hasY THEN Some(SubSeq(s, q, q + 3)) ELSE None])

\* "Merkintä " (the a-umlaut written a)
Merkinta == <<"M", "e", "r", "k", "i", "n", "t", "a", " ">>

\* flush() without its cur_lines = []
flush_keep_lines(st) ==
    IF st.cur_date = None THEN st
    ELSE LET body  == strip(join(st.cur_lines))
             title == IF body # <<>> THEN normalize_ws(splitlines(body)[1])
                      ELSE Merkinta \o iso_date(Get(st.cur_date))
         IN  [st EXCEPT !.entries = Append(@, [date  |-> Get(st.cur_date),
                                               title |-> Prefix(title, TitleMax),
                                               body  |-> body])]

\* flush() whose body is the joined lines as they are, without strip()
flush_no_strip(st) ==
    IF st.cur_date = None THEN st
    ELSE LET body  == join(st.cur_lines)
             title == IF strip(body) # <<>> THEN normalize_ws(splitlines(strip(body))[1])
                      ELSE Merkinta \o iso_date(Get(st.cur_date))
         IN  [entries   |-> Append(st.entries,
                                   [date  |-> Get(st.cur_date),
                                    title |-> Prefix(title, TitleMax),
                                    body  |-> body]),
              cur_date  |-> st.cur_date,
              cur_lines |-> <<>>]

\* flush() whose title is the first of the lines read, whatever it holds
flush_first_line(st) ==
    IF st.cur_date = None THEN st
    ELSE LET body  == strip(join(st.cur_lines))
             title == IF st.cur_lines # <<>> THEN normalize_ws(st.cur_lines[1])
                      ELSE Merkinta \o iso_date(Get(st.cur_date))
         IN  [entries   |-> Append(st.entries,
                                   [date  |-> Get(st.cur_date),
                                    title |-> Prefix(title, TitleMax),
                                    body  |-> body]),
              cur_date  |-> st.cur_date,
              cur_lines |-> <<>>]

\* flush() of parse_diary_entries on the parser state st
flush(st) ==
    IF st.cur_date = None THEN st
    ELSE LET body  == strip(join(st.cur_lines))
             title == IF body # <<>> THEN normalize_ws(splitlines(body)[1])
                      ELSE Merkinta \o iso_date(Get(st.cur_date))
         IN  [entries   |-> Append(st.entries,
                                   [date  |-> Get(st.cur_date),
                                    title |-> Prefix(title, TitleMax),
                                    body  |-> body]),
              cur_date  |-> st.cur_date,
              cur_lines |-> <<>>]

\* DiaryYear that prefers the default year to the year of the line
DiaryYearDefaultFirst(m, default_year, today) ==
    IF default_year # None THEN Get(default_year)
    ELSE IF m.y # None THEN ToInt(Get(m.y))
    ELSE today

\* the year of a date line: y = int(m.group(3)) if m.group(3) else default_year,
\* then date.today().year if y is None
DiaryYear(m, default_year, today) ==
    IF m.y # None THEN ToInt(Get(m.y))
    ELSE IF default_year # None THEN Get(default_year)
    ELSE today

\* one iteration of the for loop of parse_diary_entries; today is date.today().year
DiaryLine(st, line, default_year, today) ==
    LET mm == DATE_LINE_RE(strip(line))
    IN  IF mm # None
        THEN LET m  == Get(mm)
                 d  == ToInt(m.d)
                 mo == ToInt(m.mo)
                 y  == DiaryYear(m, default_year, today)
             IN  [flush(st) EXCEPT !.cur_date =
                     IF ValidDate(y, mo, d)
                     THEN Some([y |-> y, m |-> mo, d |-> d]) ELSE None]
        ELSE IF st.cur_date # None
             THEN [st EXCEPT !.cur_lines = Append(@, line)]
             ELSE st

RECURSIVE DiaryLoop(_, _, _, _)
DiaryLoop(st, lines, default_year, today) ==
    IF lines = <<>> THEN st
    ELSE DiaryLoop(DiaryLine(st, Head(lines), default_year, today),
                   Tail(lines), default_year, today)

parse_diary_entries(text, default_year, today) ==
    flush(DiaryLoop([entries |-> <<>>, cur_date |-> None, cur_lines |-> <<>>],
                    splitlines(text), default_year, today)).entries

\* ------------------------------------------------------------------------
\* Regular-expression helpers
\* ------------------------------------------------------------------------

Uppers == <<"A", "B", "C", "D", "E", "F", "G", "H", "I", "J", "K", "L", "M",
            "N", "O", "P", "Q", "R", "S", "T", "U", "V", "W", "X", "Y", "Z">>

Lowers == <<"a", "b", "c", "d", "e", "f", "g", "h", "i", "j", "k", "l", "m",
            "n", "o", "p", "q", "r", "s", "t", "u", "v", "w", "x", "y", "z">>

\* str.lower() of one character, and of a string
LowerChar(c) ==
    IF c \in Range(Uppers)
    THEN Lowers[CHOOSE i \in 1..26 : Uppers[i] = c] ELSE c

lower(s) == [i \in DOMAIN s |-> LowerChar(s[i])]

\* s[i:i+len(w)] == w
StartsAt(s, i, w) == i >= 1 /\ i + Len(w) - 1 <= Len(s) /\ SubSeq(s, i, i + Len(w) - 1) = w

\* s[i:i+len(w)].lower() == w, for a w in lower case
StartsAtCI(s, i, w) ==
    /\ i >= 1
    /\ i + Len(w) - 1 <= Len(s)
    /\ \A j \in 1..Len(w) : LowerChar(s[i + j - 1]) = w[j]

\* w in s
Contains(s, w) == \E i \in 1..(Len(s) + 1) : StartsAt(s, i, w)

\* regex \b between s[i-1] and s[i]
WordBoundary(s, i) ==
    LET before == i > 1 /\ i - 1 <= Len(s) /\ IsWordChar(s[i - 1])
        after  == i >= 1 /\ i <= Len(s) /\ IsWordChar(s[i])
    IN  before # after

\* the least element of a non-empty set of integers
Min(S) == CHOOSE i \in S : \A j \in S : i <= j

Max(S) == CHOOSE i \in S : \A j \in S : i >= j

\* the first index > i that ends the run of digits starting at i
RECURSIVE SkipDigits(_, _)
SkipDigits(s, i) == IF i <= Len(s) /\ IsDigit(s[i]) THEN SkipDigits(s, i + 1) ELSE i

\* ([0-9]+[,.][0-9]{2}) at i: 0 if it does not match, else the index after it
AmountEnd(s, i) ==
    LET e == SkipDigits(s, i)
    IN  IF e > i /\ e <= Len(s) /\ s[e] \in {",", "."} /\ DigitsAt(s, e + 1, 2)
        THEN e + 3 ELSE 0

\* m.group(1).replace(",", ".")
CommaToDot(s) == [i \in DOMAIN s |-> IF s[i] = "," THEN "." ELSE s[i]]

\* ------------------------------------------------------------------------
\* src/aeternitas/common/text.py
\* ------------------------------------------------------------------------

\* (19|20)\d{2} at i
YearAt(s, i) ==
    /\ (StartsAt(s, i, <<"1", "9">>) \/ StartsAt(s, i, <<"2", "0">>))
    /\ DigitsAt(s, i + 2, 2)

\* infer_year_from_path(Path(name)): re.search(r"(19|20)\d{2}", path.name)
infer_year_from_path(name) ==
    LET hits == {i \in 1..Len(name) : YearAt(name, i)}
    IN  IF hits = {} THEN None
        ELSE Some(ToInt(SubSeq(name, Min(hits), Min(hits) + 3)))

\* ------------------------------------------------------------------------
\* src/aeternitas/index/parse/receipt.py
\* ------------------------------------------------------------------------

CompanyWords == { <<"o", "y", "j">>, <<"o", "y">>, <<"a", "b">>,
                  <<"l", "t", "d">>, <<"i", "n", "c">> }

\* re.search(r"\b(oyj|oy|ab|ltd|inc)\b", ln, flags=re.IGNORECASE)
LooksLikeCompany(ln) ==
    \E i \in 1..Len(ln) : \E w \in CompanyWords :
        /\ StartsAtCI(ln, i, w)
        /\ WordBoundary(ln, i)
        /\ WordBoundary(ln, i + Len(w))

\* lines = [normalize_ws(x) for x in t.splitlines() if normalize_ws(x)]
RECURSIVE NonEmptyNormalized(_)
NonEmptyNormalized(ls) ==
    IF ls = <<>> THEN <<>>
    ELSE IF normalize_ws(Head(ls)) = <<>> THEN NonEmptyNormalized(Tail(ls))
    ELSE <<normalize_ws(Head(ls))>> \o NonEmptyNormalized(Tail(ls))

\* the merchant of parse_receipt_fields
ReceiptMerchant(lines) ==
    LET first10 == Prefix(lines, MerchantLines)
        hits    == {i \in 1..Len(first10) : LooksLikeCompany(first10[i])}
    IN  IF hits # {} THEN Some(first10[Min(hits)])
        ELSE IF lines # <<>> THEN Some(lines[1])
        ELSE None

\* \b(\d{1,2})\.(\d{1,2})\.(\d{4})\b at i: None or Some([d, mo, y]) as matched text
ReceiptDateAt(s, i) ==
    LET k1 == DayDigits(s, i)
        p1 == i + k1 + 1
        k2 == DayDigits(s, p1)
        p2 == p1 + k2 + 1
    IN  IF ~WordBoundary(s, i) THEN None
        ELSE IF k1 = 0 THEN None
        ELSE IF k2 = 0 THEN None
        ELSE IF ~(DigitsAt(s, p2, 4) /\ WordBoundary(s, p2 + 4)) THEN None
        ELSE Some([d  |-> SubSeq(s, i, i + k1 - 1),
                   mo |-> SubSeq(s, p1, p1 + k2 - 1),
                   y  |-> SubSeq(s, p2, p2 + 3)])

\* the date of parse_receipt_fields: the first match decides, a ValueError gives None
ReceiptDate(joined) ==
    LET hits == {i \in 1..Len(joined) : ReceiptDateAt(joined, i) # None}
    IN  IF hits = {} THEN None
        ELSE LET m  == Get(ReceiptDateAt(joined, Min(hits)))
                 d  == ToInt(m.d)
                 mo == ToInt(m.mo)
                 y  == ToInt(m.y)
             IN  IF ValidDate(y, mo, d) THEN Some(isoformat(y, mo, d)) ELSE None

Maksettava == <<"m", "a", "k", "s", "e", "t", "t", "a", "v", "a">>

\* "yhteens" and one of [a, a-umlaut]: the model's texts hold no a-umlaut
Yhteensa == <<"y", "h", "t", "e", "e", "n", "s", "a">>

\* Maksettava\s+([0-9]+[,.][0-9]{2}) at i: None or Some(group 1)
PayableAt(s, i) ==
    LET a == i + Len(Maksettava)
        b == SkipWs(s, a)
    IN  IF StartsAtCI(s, i, Maksettava) /\ b > a /\ AmountEnd(s, b) # 0
        THEN Some(SubSeq(s, b, AmountEnd(s, b) - 1)) ELSE None

\* Yhteens[aä].{0,20}\s+([0-9]+[,.][0-9]{2}) at i with .{0,20} taking k characters:
\* None or Some(group 1).  \s+ is greedy and the amount starts with a digit, so the
\* whitespace run is taken whole.
TotalAtGap(s, i, k) ==
    LET a == i + Len(Yhteensa) + k
        b == SkipWs(s, a)
    IN  IF /\ StartsAtCI(s, i, Yhteensa)
           /\ a <= Len(s) + 1
           /\ \A j \in (i + Len(Yhteensa))..(a - 1) : s[j] # "\n"
           /\ b > a
           /\ AmountEnd(s, b) # 0
        THEN Some(SubSeq(s, b, AmountEnd(s, b) - 1)) ELSE None

\* the same at i: .{0,20} is greedy, so the longest gap that matches wins
TotalAt(s, i) ==
    LET gaps == {k \in 0..TotalGap : TotalAtGap(s, i, k) # None}
    IN  IF ~StartsAtCI(s, i, Yhteensa) THEN None
        ELSE IF gaps = {} THEN None
        ELSE TotalAtGap(s, i, Max(gaps))

\* \b([0-9]+[,.][0-9]{2})\s*(?:EUR|e)\b at i: 0 if it does not match, else the
\* index after the match
EurEnd(s, i) ==
    LET e == AmountEnd(s, i)
        b == SkipWs(s, e)
    IN  IF ~WordBoundary(s, i) THEN 0
        ELSE IF e = 0 THEN 0
        ELSE IF StartsAtCI(s, b, <<"e", "u", "r">>) /\ WordBoundary(s, b + 3) THEN b + 3
        ELSE IF StartsAtCI(s, b, <<"e">>) /\ WordBoundary(s, b + 1) THEN b + 1
        ELSE 0

\* re.findall keeps the non-overlapping matches from left to right; m2[-1] is the
\* last of them: None or Some(group 1)
RECURSIVE LastEurAmount(_, _, _)
LastEurAmount(s, i, found) ==
    IF i > Len(s) THEN found
    ELSE IF EurEnd(s, i) = 0 THEN LastEurAmount(s, i + 1, found)
    ELSE LastEurAmount(s, EurEnd(s, i), Some(SubSeq(s, i, AmountEnd(s, i) - 1)))

\* the total of parse_receipt_fields
ReceiptTotal(joined) ==
    LET pay == {i \in 1..Len(joined) : PayableAt(joined, i) # None}
        tot == {i \in 1..Len(joined) : TotalAt(joined, i) # None}
        eur == LastEurAmount(joined, 1, None)
    IN  IF pay # {} THEN Some(CommaToDot(Get(PayableAt(joined, Min(pay)))))
        ELSE IF tot # {} THEN Some(CommaToDot(Get(TotalAt(joined, Min(tot)))))
        ELSE IF eur # None THEN Some(CommaToDot(Get(eur)))
        ELSE None

\* lines 16-19 and 70-76.  text.replace(NBSP, " "): the model's texts hold no
\* no-break space.  The items key (lines 55-68) is not modelled.
parse_receipt_fields(text) ==
    LET t      == CollapseBlanks(text)
        lines  == NonEmptyNormalized(splitlines(t))
        joined == join(lines)
    IN  [merchant  |-> ReceiptMerchant(lines),
         date      |-> ReceiptDate(joined),
         total     |-> ReceiptTotal(joined),
         raw_lines |-> Prefix(lines, RawLinesMax)]

\* ------------------------------------------------------------------------
\* Paths.  A path is the sequence of its components, each a string; the last one
\* is path.name.
\* ------------------------------------------------------------------------

PathName(path) == path[Len(path)]

\* "/".join(comps)
RECURSIVE SlashJoin(_)
SlashJoin(comps) ==
    IF comps = <<>> THEN <<>>
    ELSE IF Len(comps) = 1 THEN comps[1]
    ELSE comps[1] \o <<"/">> \o SlashJoin(Tail(comps))

\* str(path) of an absolute path
PathStr(path) == <<"/">> \o SlashJoin(path)

\* path.relative_to(root): None stands for the ValueError
relative_to(path, root) ==
    IF Len(root) < Len(path) /\ SubSeq(path, 1, Len(root)) = root
    THEN Some(SubSeq(path, Len(root) + 1, Len(path)))
    ELSE None

\* path.suffix
Suffix(name) ==
    LET dots == {i \in 1..Len(name) : name[i] = "."}
    IN  IF dots = {} THEN <<>>
        ELSE IF Max(dots) > 1 /\ Max(dots) < Len(name)
             THEN SubSeq(name, Max(dots), Len(name)) ELSE <<>>

\* mimetypes.guess_type(str(path))[0] for the suffixes of the model's paths
GuessMime(path) ==
    LET suf == lower(Suffix(PathName(path)))
    IN  IF suf = <<".", "t", "x", "t">> THEN Some("text/plain")
        ELSE IF suf = <<".", "p", "d", "f">> THEN Some("application/pdf")
        ELSE IF suf = <<".", "o", "d", "t">>
        THEN Some("application/vnd.oasis.opendocument.text")
        ELSE IF suf = <<".", "j", "p", "g">> THEN Some("image/jpeg")
        ELSE None

\* ------------------------------------------------------------------------
\* src/aeternitas/index/extractors/text_extractors.py
\* A file's data is the text its bytes decode to (plain text), the text of its
\* pages (PDF, office document) or the text read off it (image); MalformedPdf is
\* the data of a file its reader cannot read.
\* ------------------------------------------------------------------------

EXTRACTOR_VERSION == "aet.py/1"

MalformedPdf == <<"?">>

PypdfMissing == "pypdf puuttuu (pip install pypdf)"

PdfReadError == "invalid pdf header"

PlainSuffixes == { <<".", "t", "x", "t">>, <<".", "m", "d">>,
                   <<".", "c", "s", "v">>, <<".", "l", "o", "g">> }

\* extract_text_from_pdf: raises when pypdf is missing or the file is malformed
extract_text_from_pdf(data, pypdf) ==
    IF ~pypdf THEN [raised |-> TRUE, error |-> PypdfMissing]
    ELSE IF data = MalformedPdf THEN [raised |-> TRUE, error |-> PdfReadError]
    ELSE [raised |-> FALSE, text |-> data]

\* extract_text_from_odt: raises when odfpy is missing or the file is malformed
extract_text_from_odt(data, odfpy) ==
    IF ~odfpy THEN [raised |-> TRUE, error |-> "odfpy puuttuu (pip install odfpy)"]
    ELSE IF data = MalformedPdf THEN [raised |-> TRUE, error |-> "File is not a zip file"]
    ELSE [raised |-> FALSE, text |-> data]

\* extract_text_from_image_ocr: raises when pillow or pytesseract is missing or
\* the file is no image
extract_text_from_image_ocr(data, ocr) ==
    IF ~ocr
    THEN [raised |-> TRUE,
          error |-> "pillow/pytesseract puuttuu (pip install pillow pytesseract)"]
    ELSE IF data = MalformedPdf
    THEN [raised |-> TRUE, error |-> "cannot identify image file"]
    ELSE [raised |-> FALSE, text |-> data]

\* src/aeternitas/common/text.py guess_encoding and safe_read_text.  The data of
\* a plain file is the text its bytes decode to; a byte sequence that is not valid
\* UTF-8 is written with the character Latin1Byte in it.
Latin1Byte == "~"

guess_encoding(data) ==
    IF \E i \in 1..Len(data) : data[i] = Latin1Byte THEN "latin-1" ELSE "utf-8"

safe_read_text(data) == [text |-> data, enc |-> guess_encoding(data)]

ImageSuffixes == { <<".", "j", "p", "g">>, <<".", "j", "p", "e", "g">>,
                   <<".", "p", "n", "g">>, <<".", "t", "i", "f">>,
                   <<".", "t", "i", "f", "f">> }

\* an extractor that returns the empty text when its library is missing
ExtractedOrEmpty(r, enc, extractor) ==
    [raised |-> FALSE, text |-> IF r.raised THEN <<>> ELSE r.text, enc |-> enc,
     extractor |-> extractor]

\* lines 73-81: what extract_text makes of the result r of an extractor
Extracted(r, enc, extractor) ==
    IF r.raised THEN r
    ELSE [raised |-> FALSE, text |-> r.text, enc |-> enc, extractor |-> extractor]

\* an extract_text that compares the suffix as it is written
extract_text_case(path, data, pypdf) ==
    LET suf == Suffix(PathName(path))
    IN  IF suf \in PlainSuffixes
        THEN [raised |-> FALSE, text |-> safe_read_text(data).text,
              enc |-> safe_read_text(data).enc, extractor |-> "txt"]
        ELSE IF suf = <<".", "o", "d", "t">>
        THEN Extracted(extract_text_from_odt(data, pypdf), "utf-8", "odt")
        ELSE IF suf = <<".", "p", "d", "f">>
        THEN Extracted(extract_text_from_pdf(data, pypdf), "utf-8", "pdf")
        ELSE IF suf \in ImageSuffixes
        THEN Extracted(extract_text_from_image_ocr(data, pypdf), "utf-8", "ocr")
        ELSE [raised |-> FALSE, text |-> safe_read_text(data).text,
              enc |-> safe_read_text(data).enc, extractor |-> "txt-fallback"]

\* extract_text(path): (text, encoding, extractor) or the exception raised.
\* pypdf tells whether the import of the library the suffix asks for succeeded
\* (pypdf; odfpy for .odt, pillow and pytesseract for images).
extract_text(path, data, pypdf) ==
    LET suf == lower(Suffix(PathName(path)))
    IN  IF suf \in PlainSuffixes
        THEN [raised |-> FALSE, text |-> safe_read_text(data).text,
              enc |-> safe_read_text(data).enc, extractor |-> "txt"]
        ELSE IF suf = <<".", "o", "d", "t">>
        THEN Extracted(extract_text_from_odt(data, pypdf), "utf-8", "odt")
        ELSE IF suf = <<".", "p", "d", "f">>
        THEN Extracted(extract_text_from_pdf(data, pypdf), "utf-8", "pdf")
        ELSE IF suf \in ImageSuffixes
        THEN Extracted(extract_text_from_image_ocr(data, pypdf), "utf-8", "ocr")
        ELSE [raised |-> FALSE, text |-> safe_read_text(data).text,
              enc |-> safe_read_text(data).enc, extractor |-> "txt-fallback"]

\* ------------------------------------------------------------------------
\* src/aeternitas/index/db/schema.py: the store.  A table is the sequence of its
\* rows and a row's id is its index (INTEGER PRIMARY KEY: the greatest rowid plus
\* one, which on a table emptied by DELETE starts again at 1).
\* ------------------------------------------------------------------------

EmptyDb ==
    [source |-> <<>>, revision |-> <<>>, doc |-> <<>>, doc_fts |-> {}, timeline |-> <<>>]

\* trigger doc_ai: AFTER INSERT ON doc, add (rowid, title, text) to doc_fts
doc_ai(d, id) ==
    [d EXCEPT !.doc_fts = @ \cup {[rowid |-> id, title |-> d.doc[id].title,
                                   text |-> d.doc[id].text]}]

\* INSERT INTO doc that stores the text with its white space normalized
InsertDocNormalized(d, row) ==
    doc_ai([d EXCEPT !.doc = Append(@, [row EXCEPT !.text = normalize_ws(@)])],
           Len(d.doc) + 1)

\* INSERT INTO doc(...), with its trigger
InsertDoc(d, row) == doc_ai([d EXCEPT !.doc = Append(@, row)], Len(d.doc) + 1)

\* the place of a deleted row of doc: the rows after it keep their ids
Deleted == [deleted |-> TRUE]

LiveDocs(d) == {i \in 1..Len(d.doc) : d.doc[i] # Deleted}

\* INSERT INTO doc_fts(doc_fts, rowid, title, text) VALUES('delete', ...): the
\* tuple of the old row leaves the index
fts_delete(d, id, old) ==
    [d EXCEPT !.doc_fts = @ \ {[rowid |-> id, title |-> old.title, text |-> old.text]}]

\* trigger doc_au without its 'delete' of the old tuple
doc_au_no_delete(d, id, old) == doc_ai(d, id)

\* trigger doc_au: AFTER UPDATE ON doc, 'delete' the old tuple, then add the new
doc_au(d, id, old) == doc_ai(fts_delete(d, id, old), id)

\* trigger doc_ad: AFTER DELETE ON doc, 'delete' the old tuple
doc_ad(d, id, old) == fts_delete(d, id, old)

\* UPDATE doc SET title=?, text=? WHERE id=?, with its trigger
UpdateDoc(d, id, title, text) ==
    doc_au([d EXCEPT !.doc[id].title = title, !.doc[id].text = text], id, d.doc[id])

\* the rows of a table up to its last live row
RECURSIVE TrimDeleted(_)
TrimDeleted(rows) ==
    IF rows # <<>> /\ rows[Len(rows)] = Deleted
    THEN TrimDeleted(SubSeq(rows, 1, Len(rows) - 1)) ELSE rows

\* DELETE FROM doc WHERE id=?, with its trigger
DeleteDoc(d, id) ==
    doc_ad([d EXCEPT !.doc = TrimDeleted([@ EXCEPT ![id] = Deleted])], id, d.doc[id])

\* ------------------------------------------------------------------------
\* The environment: the paths given to cmd_ingest and what the file system shows
\* for them at the moment of a call
\* ------------------------------------------------------------------------

RootDir == << <<"r">> >>

\* /r/a.txt and /r/k.pdf
PathA == RootDir \o << <<"a", ".", "t", "x", "t">> >>

PathK == RootDir \o << <<"k", ".", "p", "d", "f">> >>

Paths == {PathA, PathK}

ScanRoots == {None}

\* "14.3.\nNext", "15.3.\nNext" (as long as the first) and "x"
Diary1 == <<"1", "4", ".", "3", ".", "\n", "N", "e", "x", "t">>

Diary2 == <<"1", "5", ".", "3", ".", "\n", "N", "e", "x", "t">>

Note1 == <<"x">>

\* "K Oy\n1.2.2020\nMaksettava 12,50"
Receipt1 == <<"K", " ", "O", "y", "\n", "1", ".", "2", ".", "2", "0", "2", "0", "\n",
              "M", "a", "k", "s", "e", "t", "t", "a", "v", "a", " ",
              "1", "2", ",", "5", "0">>

\* "../r/k.pdf": a link's st_size is the length of its target, here that of Diary1
LinkTarget == <<".", ".", "/", "r", "/", "k", ".", "p", "d", "f">>

\* what the file system may show for a path: nothing, a symbolic link, and regular
\* files that differ from the first one in content only (same size and mtime), in
\* mtime only, and in size
Observations(path) ==
    IF path = PathA
    THEN { [kind |-> "missing"],
           [kind |-> "symlink", mtime |-> 1, target |-> LinkTarget],
           [kind |-> "file", mtime |-> 1, data |-> Diary1],
           [kind |-> "file", mtime |-> 1, data |-> Diary2],
           [kind |-> "file", mtime |-> 2, data |-> Diary1],
           [kind |-> "file", mtime |-> 1, data |-> Note1] }
    ELSE { [kind |-> "file", mtime |-> 1, data |-> Receipt1] }

\* whether pypdf may be installed or missing when path is ingested (it is used for
\* .pdf files only)
PypdfStates(path) ==
    IF lower(Suffix(PathName(path))) = <<".", "p", "d", "f">> THEN BOOLEAN ELSE {TRUE}

\* date.today().year at the start of the model and the years it may reach
Years == {2025, 2026}

\* ------------------------------------------------------------------------
\* src/aeternitas/index/ingest/ingest.py
\* ------------------------------------------------------------------------

\* COALESCE(new, old)
Coalesce(new, old) == IF new # None THEN new ELSE old

\* upsert_source without its SELECT: a new row at every call
upsert_source_insert(d, uri, source_type, scan_root, rel_path, mime) ==
    [db |-> [d EXCEPT !.source = Append(@,
                [uri |-> uri, source_type |-> source_type,
                 scan_root |-> scan_root, rel_path |-> Some(rel_path),
                 mime |-> mime, current_revision_id |-> None])],
     id |-> Len(d.source) + 1]

\* upsert_source without its UPDATE of a source that exists
upsert_source_no_update(d, uri, source_type, scan_root, rel_path, mime) ==
    LET hits == {i \in 1..Len(d.source) : d.source[i].uri = uri}
    IN  IF hits # {}
        THEN [db |-> d, id |-> Min(hits)]
        ELSE [db |-> [d EXCEPT !.source = Append(@,
                        [uri |-> uri, source_type |-> source_type,
                         scan_root |-> scan_root, rel_path |-> Some(rel_path),
                         mime |-> mime, current_revision_id |-> None])],
              id |-> Len(d.source) + 1]

\* upsert_source: the store after it and the id it returns
upsert_source(d, uri, source_type, scan_root, rel_path, mime) ==
    LET hits == {i \in 1..Len(d.source) : d.source[i].uri = uri}
    IN  IF hits # {}
        THEN LET id == Min(hits)
             IN  [db |-> [d EXCEPT !.source[id].mime = Coalesce(mime, @),
                                   !.source[id].scan_root = Coalesce(scan_root, @),
                                   !.source[id].rel_path = Coalesce(Some(rel_path), @)],
                  id |-> id]
        ELSE [db |-> [d EXCEPT !.source = Append(@,
                        [uri |-> uri, source_type |-> source_type,
                         scan_root |-> scan_root, rel_path |-> Some(rel_path),
                         mime |-> mime, current_revision_id |-> None])],
              id |-> Len(d.source) + 1]

\* latest_revision: None or Some(id) of the source's revision with the greatest id
latest_revision(d, source_id) ==
    LET revs == {i \in 1..Len(d.revision) : d.revision[i].source_id = source_id}
    IN  IF revs = {} THEN None ELSE Some(Max(revs))

\* the change detector without its comparison of fingerprints
ChangeDetectorNoSha(latest, st, sha) ==
    /\ latest # None
    /\ Get(latest).size = st.st_size
    /\ Get(latest).mtime = st.st_mtime
    /\ Get(latest).status = "ok"

\* the change detector without its test of the status
ChangeDetectorAnyStatus(latest, st, sha) ==
    /\ latest # None
    /\ Get(latest).size = st.st_size
    /\ Get(latest).mtime = st.st_mtime
    /\ ~(sha # None /\ Get(latest).sha256 # sha)
    /\ ~(sha = None /\ Get(latest).sha256 # None)

\* the change detector of ingest_file (lines 109-115): TRUE when it returns early.
\* latest is None or Some(revision row); st is the stat result, sha the fingerprint
\* (None for a symbolic link).
ChangeDetectorSkips(latest, st, sha) ==
    /\ latest # None
    /\ Get(latest).size = st.st_size
    /\ Get(latest).mtime = st.st_mtime
    /\ ~(sha # None /\ Get(latest).sha256 # sha)
    /\ ~(sha = None /\ Get(latest).sha256 # None)
    /\ Get(latest).status = "ok"

\* RevisionRow without the error column
RevisionRowNoError(source_id, st, sha, encoding, extractor, status, error) ==
    [source_id |-> source_id, size |-> st.st_size, mtime |-> st.st_mtime,
     sha256 |-> sha, content_encoding |-> encoding,
     extractor |-> extractor, extractor_version |-> EXTRACTOR_VERSION,
     status |-> status, error |-> None]

\* lines 67-70: the row of INSERT INTO revision
RevisionRow(source_id, st, sha, encoding, extractor, status, error) ==
    [source_id |-> source_id, size |-> st.st_size, mtime |-> st.st_mtime,
     sha256 |-> sha, content_encoding |-> encoding,
     extractor |-> extractor, extractor_version |-> EXTRACTOR_VERSION,
     status |-> status, error |-> error]

\* UpdatePointer without its effect on a source that already has a pointer
UpdatePointerOnce(d, source_id, rev_id) ==
    IF d.source[source_id].current_revision_id = None
    THEN [d EXCEPT !.source[source_id].current_revision_id = Some(rev_id)]
    ELSE d

\* UpdatePointer without its effect when the revision written is an error revision
UpdatePointerOk(d, source_id, rev_id) ==
    IF d.revision[rev_id].status = "ok"
    THEN [d EXCEPT !.source[source_id].current_revision_id = Some(rev_id)]
    ELSE d

\* line 76: UPDATE source SET current_revision_id=? WHERE id=?
UpdatePointer(d, source_id, rev_id) ==
    [d EXCEPT !.source[source_id].current_revision_id = Some(rev_id)]

\* add_revision_and_doc.  fault names the statement on which the store raises
\* (1: INSERT INTO revision, 2: INSERT INTO doc, 3: UPDATE source; 0: none); a
\* statement that raises changes nothing, the statements before it stay done.
add_revision_and_doc(d, source_id, title, text, encoding, extractor, extra_json, status, error, sha, st, fault) ==
    LET rev_id == Len(d.revision) + 1
        d1 == [d EXCEPT !.revision = Append(@,
                  RevisionRow(source_id, st, sha, encoding, extractor, status, error))]
        d2 == InsertDoc(d1, [revision_id |-> rev_id, title |-> title, text |-> text,
                             json |-> extra_json])
        d3 == UpdatePointer(d2, source_id, rev_id)
    IN  IF fault = 1 THEN [db |-> d, raised |-> TRUE]
        ELSE IF fault = 2 THEN [db |-> d1, raised |-> TRUE]
        ELSE IF fault = 3 THEN [db |-> d2, raised |-> TRUE]
        ELSE [db |-> d3, raised |-> FALSE]

FileScheme == <<"f", "i", "l", "e", ":", "/", "/">>

Kuitti == <<"k", "u", "i", "t", "t", "i">>

\* the message of the sqlite3 error a failing statement raises
StoreError == "database or disk is full"

\* hashing.sha256_file: the digest of a file's data (no two data share one)
sha256_file(data) == <<"sha256", data>>

\* (19|20)\d{2}[-_.](\d{2})[-_.](\d{2}) at i
NameDateAt(s, i) ==
    /\ YearAt(s, i)
    /\ i + 9 <= Len(s)
    /\ s[i + 4] \in {"-", "_", "."}
    /\ DigitsAt(s, i + 5, 2)
    /\ s[i + 7] \in {"-", "_", "."}
    /\ DigitsAt(s, i + 8, 2)

\* lines 148-153: the date taken from the file name, None when the name holds none
NameDate(name) ==
    LET hits == {i \in 1..Len(name) : NameDateAt(name, i)}
    IN  IF hits = {} THEN None
        ELSE LET i == Min(hits)
             IN  Some(isoformat(ToInt(SubSeq(name, i, i + 3)),
                                ToInt(SubSeq(name, i + 5, i + 6)),
                                ToInt(SubSeq(name, i + 8, i + 9))))

\* lines 144-153: the receipt attached to extra_json (None when the file does not
\* look like a receipt)
ReceiptOf(path, text, extractor) ==
    IF extractor \in {"pdf", "ocr"} \/ Contains(lower(PathName(path)), Kuitti)
    THEN LET r == parse_receipt_fields(text)
         IN  Some(IF r.date = None /\ NameDate(PathName(path)) # None
                  THEN [r EXCEPT !.date = NameDate(PathName(path))]
                  ELSE r)
    ELSE None

\* lines 91-99: rel and uri
RelOf(path, scan_root) ==
    IF scan_root # None /\ relative_to(path, Get(scan_root)) # None
    THEN SlashJoin(Get(relative_to(path, Get(scan_root))))
    ELSE PathName(path)

UriOf(path, scan_root) ==
    FileScheme \o (IF scan_root # None THEN RelOf(path, scan_root) ELSE PathStr(path))

\* os.stat_result of an observation
StatOf(obs) ==
    [st_size  |-> IF obs.kind = "symlink" THEN Len(obs.target) ELSE Len(obs.data),
     st_mtime |-> obs.mtime]

\* the tables of the pure computations (PrepareTable, DiaryTable): set in Init and
\* never changed
VARIABLE memo

\* The part of ingest_file that reads the file and not the store, when the file
\* system shows obs for path:
\*   [kind |-> "symlink", mtime, target]   a symbolic link
\*   [kind |-> "file", mtime, data]        a regular file
\* and pypdf tells whether pypdf is installed.  Lines 81-99: mime, st, sha, rel,
\* uri; lines 140-154: the extraction and extra_json of the try block.
Prepare(path, scan_root, obs, pypdf) ==
    LET mime == GuessMime(path)
        rel  == RelOf(path, scan_root)
        ex   == IF obs.kind = "symlink" THEN [raised |-> TRUE, error |-> ""]
                ELSE extract_text(path, obs.data, pypdf)
        receipt == ReceiptOf(path, ex.text, ex.extractor)
    IN  [mime  |-> mime,
         st    |-> StatOf(obs),
         sha   |-> IF obs.kind = "symlink" THEN None ELSE Some(sha256_file(obs.data)),
         rel   |-> rel,
         uri   |-> UriOf(path, scan_root),
         root  |-> IF scan_root # None THEN Some(PathStr(Get(scan_root))) ELSE None,
         name  |-> PathName(path),
         base  |-> [mime |-> mime, path |-> PathStr(path), rel_path |-> rel],
         ex    |-> ex,
         extra |-> IF ex.raised THEN None
                   ELSE IF receipt = None
                   THEN Some([mime |-> mime, path |-> PathStr(path), rel_path |-> rel,
                              extractor |-> ex.extractor])
                   ELSE Some([mime |-> mime, path |-> PathStr(path), rel_path |-> rel,
                              extractor |-> ex.extractor, receipt |-> Get(receipt)])]

\* Prepare for every input of the model: the table is computed once, in Init, and
\* read from the variable memo afterwards
PrepareKeys ==
    UNION {{<<path, root, obs, pypdf>> :
               root \in ScanRoots, obs \in Observations(path) \ {[kind |-> "missing"]},
               pypdf \in PypdfStates(path)} : path \in Paths}

PrepareTable == [k \in PrepareKeys |-> Prepare(k[1], k[2], k[3], k[4])]

Prepared(path, scan_root, obs, pypdf) == memo.prepare[<<path, scan_root, obs, pypdf>>]

\* ingest_file without its branch for links
is_symlink_never(obs) == FALSE

\* line 82: path.is_symlink()
is_symlink(obs) == obs.kind = "symlink"

\* ingest_file(con, path, scan_root) when the file system shows obs for path
\* ([kind |-> "missing"]: stat raises).  f1, f2: the statement on which the store
\* raises in the first and in the second add_revision_and_doc of the call.
\* res is how the call ends: "statfail" and "raised" leave it by an exception.
ingest_file(d, path, scan_root, obs, pypdf, f1, f2) ==
    IF obs.kind = "missing"
    THEN [db |-> d, res |-> "statfail", error |-> None, faults |-> 0]
    ELSE
    LET p      == Prepared(path, scan_root, obs, pypdf)
        up     == upsert_source(d, p.uri, "file", p.root, p.rel, p.mime)
        lid    == latest_revision(up.db, up.id)
        latest == IF lid = None THEN None ELSE Some(up.db.revision[Get(lid)])
        \* except Exception as e: the error revision, from store d0
        Failed(d0, msg, res, used) ==
            LET b == add_revision_and_doc(d0, up.id, p.name, <<>>, "utf-8", "error",
                                          p.base, "error", Some(msg), p.sha, p.st, f2)
            IN  IF b.raised
                THEN [db |-> b.db, res |-> "raised", error |-> Some(StoreError),
                      faults |-> used + 1]
                ELSE [db |-> b.db, res |-> res, error |-> Some(msg), faults |-> used]
    IN  IF ChangeDetectorSkips(latest, p.st, p.sha)
        THEN [db |-> up.db, res |-> "skipped", error |-> None, faults |-> 0]
        ELSE IF is_symlink(obs)
        THEN LET a == add_revision_and_doc(up.db, up.id, p.name, <<>>, "utf-8", "symlink",
                          [mime |-> p.mime, path |-> PathStr(path), rel_path |-> p.rel,
                           symlink_target |-> Some(obs.target)],
                          "ok", None, None, p.st, f1)
             IN  IF a.raised
                 THEN [db |-> a.db, res |-> "raised", error |-> Some(StoreError),
                       faults |-> 1]
                 ELSE [db |-> a.db, res |-> "symlink", error |-> None, faults |-> 0]
        ELSE IF p.ex.raised THEN Failed(up.db, p.ex.error, "error", 0)
        ELSE LET a == add_revision_and_doc(up.db, up.id, p.name, p.ex.text, p.ex.enc,
                                           p.ex.extractor, Get(p.extra), "ok", None,
                                           p.sha, p.st, f1)
             IN  IF a.raised THEN Failed(a.db, StoreError, "stored-error", 1)
                 ELSE [db |-> a.db, res |-> "ok", error |-> None, faults |-> 0]

\* ------------------------------------------------------------------------
\* src/aeternitas/index/timeline/build.py
\* ------------------------------------------------------------------------

\* snippet[:300] and entries[:2000]
SnippetMax == 300

EntriesMax == 2000

\* str() of an Optional string inside an f-string
FmtOpt(o) == IF o = None THEN <<"N", "o", "n", "e">> ELSE Get(o)

\* the SELECT of rebuild_timeline: the ids of the documents whose revision is some
\* source's current revision and has status ok
CurrentOkDocs(d) ==
    {i \in 1..Len(d.doc) :
        /\ d.doc[i].revision_id \in 1..Len(d.revision)
        /\ d.revision[d.doc[i].revision_id].status = "ok"
        /\ \E s \in 1..Len(d.source) :
              d.source[s].current_revision_id = Some(d.doc[i].revision_id)}

\* lines 45-52 for one document: the diary rows of a text under a title, without
\* the doc_id; today is date.today().year
DiaryRows(title, text, today) ==
    LET diary == Prefix(parse_diary_entries(text, infer_year_from_path(title), today),
                        EntriesMax)
    IN  [k \in 1..Len(diary) |->
            [date |-> iso_date(diary[k].date), kind |-> "diary_entry",
             title |-> diary[k].title,
             snippet |-> normalize_ws(Prefix(diary[k].body, SnippetMax)),
             json |-> None]]

\* DiaryRows for every title, text and year of the model, read from memo
DiaryKeys ==
    UNION {{<<PathName(path), text, today>> :
               text \in {<<>>} \cup {o.data : o \in {x \in Observations(path) :
                                                       x.kind = "file"}},
               today \in Years} :
           path \in Paths}

DiaryTable == [k \in DiaryKeys |-> DiaryRows(k[1], k[2], k[3])]

DiaryRowsOf(title, text, today) == memo.diary[<<title, text, today>>]

\* DocEntries whose receipt branch does not `continue`: the diary rows of the
\* text follow the receipt row
DocEntriesBoth(d, doc_id, today) ==
    LET row   == d.doc[doc_id]
        meta  == row.json
        diary == DiaryRowsOf(row.title, row.text, today)
    IN  (IF "receipt" \in DOMAIN meta /\ meta.receipt.date # None
         THEN << [doc_id |-> doc_id, date |-> Get(meta.receipt.date), kind |-> "receipt",
                  title |-> row.title,
                  snippet |-> Prefix(FmtOpt(meta.receipt.merchant)
                                     \o <<" ", "t", "o", "t", "a", "l", " ">>
                                     \o FmtOpt(meta.receipt.total), SnippetMax),
                  json |-> Some(meta.receipt)] >>
         ELSE <<>>)
        \o [k \in 1..Len(diary) |->
                [doc_id |-> doc_id, date |-> diary[k].date, kind |-> diary[k].kind,
                 title |-> diary[k].title, snippet |-> diary[k].snippet,
                 json |-> diary[k].json]]

\* the timeline rows one document gives (lines 25-51); json: None is the "{}" of a
\* diary row
DocEntries(d, doc_id, today) ==
    LET row   == d.doc[doc_id]
        meta  == row.json
        diary == DiaryRowsOf(row.title, row.text, today)
    IN  IF "receipt" \in DOMAIN meta /\ meta.receipt.date # None
        THEN << [doc_id |-> doc_id, date |-> Get(meta.receipt.date), kind |-> "receipt",
                 title |-> row.title,
                 snippet |-> Prefix(FmtOpt(meta.receipt.merchant)
                                    \o <<" ", "t", "o", "t", "a", "l", " ">>
                                    \o FmtOpt(meta.receipt.total), SnippetMax),
                 json |-> Some(meta.receipt)] >>
        ELSE [k \in 1..Len(diary) |->
                [doc_id |-> doc_id, date |-> diary[k].date, kind |-> diary[k].kind,
                 title |-> diary[k].title, snippet |-> diary[k].snippet,
                 json |-> diary[k].json]]

\* the rows of the documents ids, in ascending id
RECURSIVE EntriesOf(_, _, _)
EntriesOf(d, ids, today) ==
    IF ids = {} THEN <<>>
    ELSE DocEntries(d, Min(ids), today) \o EntriesOf(d, ids \ {Min(ids)}, today)

\* rebuild_timeline without its DELETE FROM timeline
rebuild_timeline_keep(d, today) ==
    [d EXCEPT !.timeline = @ \o EntriesOf(d, CurrentOkDocs(d), today)]

\* rebuild_timeline that also empties the text of the documents it does not select
rebuild_timeline_blank(d, today) ==
    [d EXCEPT !.timeline = EntriesOf(d, CurrentOkDocs(d), today),
              !.doc = [i \in DOMAIN @ |->
                          IF i \in CurrentOkDocs(d) THEN @[i] ELSE [@[i] EXCEPT !.text = <<>>]]]

\* rebuild_timeline: DELETE FROM timeline, then the rows of every selected document
rebuild_timeline(d, today) ==
    [d EXCEPT !.timeline = EntriesOf(d, CurrentOkDocs(d), today)]

\* ------------------------------------------------------------------------
\* src/aeternitas/index/db/connection.py
\* ------------------------------------------------------------------------

\* db_connect whose UPDATE has no WHERE current_revision_id IS NULL
db_connect_all(d) ==
    [d EXCEPT !.source = [i \in 1..Len(d.source) |->
        [d.source[i] EXCEPT !.current_revision_id = latest_revision(d, i)]]]

\* db_connect on an existing store: the UPDATE that fills the NULL pointers
db_connect(d) ==
    [d EXCEPT !.source = [i \in 1..Len(d.source) |->
        IF d.source[i].current_revision_id = None
        THEN [d.source[i] EXCEPT !.current_revision_id = latest_revision(d, i)]
        ELSE d.source[i]]]

\* ------------------------------------------------------------------------
\* src/aeternitas/index/cli.py: cmd_search
\* ------------------------------------------------------------------------

\* the queries of the model: one term each, in lower case
Queries == {<<"n", "e", "x", "t">>, <<"p", "d", "f">>}

\* the term w is a token of s: the tokenizer of fts5 cuts a value at the
\* characters that are neither letters nor digits and folds case
HasToken(s, w) ==
    \E i \in 1..(Len(s) - Len(w) + 1) :
        /\ (i = 1 \/ ~IsWordChar(s[i - 1]))
        /\ (i + Len(w) > Len(s) \/ ~IsWordChar(s[i + Len(w)]))
        /\ StartsAtCI(s, i, w)

\* doc_fts MATCH ?: the term is a token of one of the indexed columns
fts_match(row, q) == HasToken(row.title, q) \/ HasToken(row.text, q)

\* the query without its condition on the status of the revision
cmd_search_any_status(d, q) ==
    {row.rowid : row \in {x \in d.doc_fts :
        /\ x.rowid \in 1..Len(d.doc)
        /\ d.doc[x.rowid].revision_id \in 1..Len(d.revision)
        /\ \E s \in 1..Len(d.source) :
              d.source[s].current_revision_id = Some(d.doc[x.rowid].revision_id)
        /\ fts_match(x, q)}}

\* lines 38-48, the ids of the documents the query returns when LIMIT does not
\* cut them (cmd_search prints at most args.limit of these): doc_fts joined to doc
\* on the rowid, to revision on doc.revision_id, to source on
\* source.current_revision_id, with MATCH and r.status = 'ok'
cmd_search(d, q) ==
    {row.rowid : row \in {x \in d.doc_fts :
        /\ x.rowid \in 1..Len(d.doc)
        /\ d.doc[x.rowid].revision_id \in 1..Len(d.revision)
        /\ d.revision[d.doc[x.rowid].revision_id].status = "ok"
        /\ \E s \in 1..Len(d.source) :
              d.source[s].current_revision_id = Some(d.doc[x.rowid].revision_id)
        /\ fts_match(x, q)}}

\* ------------------------------------------------------------------------
\* Bounds
\* ------------------------------------------------------------------------

\* the rows the revision table may reach, and the store errors that may strike
MaxRevs == 2

MaxFaults == 1

\* ------------------------------------------------------------------------
\* State
\* ------------------------------------------------------------------------

VARIABLES
    db,         \* the store as the open connection sees it
    committed,  \* the store as committed (what a new connection sees)
    pc,         \* "idle", or where cmd_ingest stands: "start", "ingest", "rebuilt"
    scan_root,  \* args.scan_root of the running cmd_ingest
    clock,      \* the current year
    last,       \* the last ingest_file call: its inputs and how it ended
    batch,      \* the running or last batch: the store at its start, how it ended
    hist,       \* rebuild history: the timeline before the last rebuild
    faults,     \* store errors so far
    arg,        \* the arguments of the parser call under test, None outside one
    ret,        \* what that call returned, None before it returns
    frame       \* the local variables of a running call_openai_responses or
                \* iter_entries, None outside one

vars == <<db, committed, pc, scan_root, clock, last, batch, hist, faults, memo, arg, ret, frame>>

NoCall ==
    [res |-> "none", path |-> <<>>, root |-> None, obs |-> [kind |-> "missing"],
     pypdf |-> TRUE, error |-> None, before |-> 0, wrote |-> 0]

Init ==
    /\ frame = None
    /\ db = EmptyDb
    /\ committed = EmptyDb
    /\ pc = "idle"
    /\ scan_root = None
    /\ clock = 2025
    /\ last = NoCall
    /\ batch = [snap |-> EmptyDb, outcome |-> "none", errors |-> 0]
    /\ hist = [fresh |-> TRUE, prev |-> <<>>, prevFresh |-> FALSE]
    /\ faults = 0
    /\ arg = None
    /\ ret = None
    /\ memo = [prepare |-> PrepareTable, diary |-> DiaryTable]

\* ------------------------------------------------------------------------
\* src/aeternitas/index/cli.py cmd_ingest
\* ------------------------------------------------------------------------

\* a rollback that keeps what the connection wrote
RollbackKeeps(d, c) == d

\* `with con:` left by an exception: con.rollback().  d is the store as the
\* connection sees it, c the committed store; the result is the store afterwards
Rollback(d, c) == c

\* `with con:` left normally: con.commit(), with d and c as in Rollback
CommitTx(d, c) == d

\* lines 15-17: db_connect (which commits its backfill) and the scan root
BatchStart(root) ==
    /\ pc = "idle"
    /\ committed' = db_connect(committed)
    /\ db' = db_connect(committed)
    /\ pc' = "start"
    /\ scan_root' = root
    /\ batch' = [snap |-> db_connect(committed), outcome |-> "running", errors |-> 0]
    /\ UNCHANGED <<clock, last, hist, faults, memo, arg, ret, frame>>

\* the exception leaves cmd_ingest through `with con:`
Abort(call) ==
    /\ db' = Rollback(db, committed)
    /\ committed' = Rollback(db, committed)
    /\ pc' = "idle"
    /\ batch' = [batch EXCEPT !.outcome = "aborted"]
    /\ last' = call
    /\ hist' = [fresh |-> TRUE, prev |-> <<>>, prevFresh |-> FALSE]
    /\ UNCHANGED <<scan_root, clock, memo, arg, ret, frame>>

\* lines 19-20: one ingest_file call of the loop.  The store raises (f1, f2) only in
\* an add_revision_and_doc the call makes, at most MaxFaults times in all, and the
\* revision table stays within MaxRevs rows.
IngestFile(path, obs, pypdf, f1, f2) ==
    /\ pc \in {"start", "ingest"}
    /\ (f1 # 0 \/ f2 # 0) => faults < MaxFaults
    /\ (f1 # 0 \/ f2 # 0) => obs.kind # "missing"
    /\ Len(db.revision) + (IF f1 > 1 THEN 1 ELSE 0) + (IF f2 > 1 THEN 1 ELSE 0) <= MaxRevs
    /\ \E r \in {ingest_file(db, path, scan_root, obs, pypdf, f1, f2)} :
       LET call == [res |-> r.res, path |-> path, root |-> scan_root, obs |-> obs,
                    pypdf |-> pypdf, error |-> r.error, before |-> Len(db.revision),
                    wrote |-> Len(r.db.revision) - Len(db.revision)]
       IN  /\ Len(r.db.revision) <= MaxRevs
           /\ faults + r.faults <= MaxFaults
           /\ r.faults = (IF f1 # 0 THEN 1 ELSE 0) + (IF f2 # 0 THEN 1 ELSE 0)
           /\ faults' = faults + r.faults
           /\ IF r.res \in {"statfail", "raised"}
              THEN Abort(call)
              ELSE /\ db' = r.db
                   /\ pc' = "ingest"
                   /\ last' = call
                   /\ batch' = [batch EXCEPT !.errors =
                                   IF r.res = "error" /\ @ = 0 THEN 1 ELSE @]
                   /\ hist' = [hist EXCEPT !.fresh = @ /\ call.wrote = 0]
                   /\ UNCHANGED <<committed, scan_root, clock, memo, arg, ret, frame>>

\* line 21: rebuild_timeline, after the loop over args.paths (nargs="+": at least
\* one path), in a year the clock has reached
Rebuild(today) ==
    /\ pc = "ingest"
    /\ today >= clock
    /\ clock' = today
    /\ db' = rebuild_timeline(db, today)
    /\ pc' = "rebuilt"
    /\ hist' = [fresh |-> TRUE, prev |-> db.timeline, prevFresh |-> hist.fresh]
    /\ UNCHANGED <<committed, scan_root, last, batch, faults, memo, arg, ret, frame>>

\* the end of `with con:`
Commit ==
    /\ pc = "rebuilt"
    /\ committed' = CommitTx(db, committed)
    /\ pc' = "idle"
    /\ batch' = [batch EXCEPT !.outcome = "committed", !.snap = CommitTx(db, committed)]
    /\ hist' = [hist EXCEPT !.prev = <<>>, !.prevFresh = FALSE]
    /\ UNCHANGED <<db, scan_root, clock, last, faults, memo, arg, ret, frame>>

\* KeyboardInterrupt, or any error outside ingest_file's try, before the commit
Interrupt ==
    /\ pc \in {"start", "ingest", "rebuilt"}
    /\ Abort([NoCall EXCEPT !.res = "interrupted"])
    /\ UNCHANGED faults

Next ==
    \/ \E root \in ScanRoots : BatchStart(root)
    \/ \E path \in Paths : \E obs \in Observations(path) : \E pypdf \in PypdfStates(path) :
          \E f1 \in 0..3 : \E f2 \in 0..3 : IngestFile(path, obs, pypdf, f1, f2)
    \/ \E today \in Years : Rebuild(today)
    \/ Commit
    \/ Interrupt

Spec == Init /\ [][Next]_vars

\* ------------------------------------------------------------------------
\* src/aeternitas/index/db/schema.py: the statements a client of the schema may
\* run on doc, in a transaction on the store two ingested files leave.  Every
\* statement fires its trigger of the schema.
\* ------------------------------------------------------------------------

\* the ids the doc table may reach
MaxDocRows == 3

DocTitles == {PathName(PathA), PathName(PathK)}

DocTexts == {Diary1, Note1}

\* the store after ingest_file of a.txt and of k.pdf
IngestedDb ==
    LET d1 == ingest_file(EmptyDb, PathA, None,
                          [kind |-> "file", mtime |-> 1, data |-> Diary1], TRUE, 0, 0).db
    IN  ingest_file(d1, PathK, None,
                    [kind |-> "file", mtime |-> 1, data |-> Receipt1], TRUE, 0, 0).db

InitDoc ==
    /\ frame = None
    /\ memo = [prepare |-> PrepareTable, diary |-> DiaryTable]
    /\ db = IngestedDb
    /\ committed = IngestedDb
    /\ pc = "idle"
    /\ scan_root = None
    /\ clock = 2025
    /\ last = NoCall
    /\ batch = [snap |-> EmptyDb, outcome |-> "none", errors |-> 0]
    /\ hist = [fresh |-> TRUE, prev |-> <<>>, prevFresh |-> FALSE]
    /\ faults = 0
    /\ arg = None
    /\ ret = None

\* INSERT INTO doc: revision_id is NOT NULL, UNIQUE and a foreign key
DocInsert(rid, title, text) ==
    /\ Len(db.doc) < MaxDocRows
    /\ rid \in 1..Len(db.revision)
    /\ \A i \in LiveDocs(db) : db.doc[i].revision_id # rid
    /\ db' = InsertDoc(db, [revision_id |-> rid, title |-> title, text |-> text,
                            json |-> <<>>])
    /\ UNCHANGED <<committed, pc, scan_root, clock, last, batch, hist, faults, memo, arg, ret, frame>>

DocUpdate(id, title, text) ==
    /\ id \in LiveDocs(db)
    /\ db' = UpdateDoc(db, id, title, text)
    /\ UNCHANGED <<committed, pc, scan_root, clock, last, batch, hist, faults, memo, arg, ret, frame>>

\* DELETE FROM doc: timeline.doc_id is a foreign key
DocDelete(id) ==
    /\ id \in LiveDocs(db)
    /\ \A k \in 1..Len(db.timeline) : db.timeline[k].doc_id # id
    /\ db' = DeleteDoc(db, id)
    /\ UNCHANGED <<committed, pc, scan_root, clock, last, batch, hist, faults, memo, arg, ret, frame>>

DocCommit ==
    /\ db # committed
    /\ committed' = CommitTx(db, committed)
    /\ UNCHANGED <<db, pc, scan_root, clock, last, batch, hist, faults, memo, arg, ret, frame>>

DocRollback ==
    /\ db # committed
    /\ db' = Rollback(db, committed)
    /\ UNCHANGED <<committed, pc, scan_root, clock, last, batch, hist, faults, memo, arg, ret, frame>>

NextDoc ==
    \/ \E rid \in 1..MaxDocRows : \E title \in DocTitles : \E text \in DocTexts :
          DocInsert(rid, title, text)
    \/ \E id \in 1..MaxDocRows : \E title \in DocTitles : \E text \in DocTexts :
          DocUpdate(id, title, text)
    \/ \E id \in 1..MaxDocRows : DocDelete(id)
    \/ DocCommit
    \/ DocRollback

SpecDoc == InitDoc /\ [][NextDoc]_vars

\* ------------------------------------------------------------------------
\* The parsers on their own: a call of parse_diary_entries on one text
\* ------------------------------------------------------------------------

\* the state outside cmd_ingest, on a new store; the parsers read no table
Idle ==
    /\ db = EmptyDb
    /\ committed = EmptyDb
    /\ pc = "idle"
    /\ scan_root = None
    /\ clock = 2025
    /\ last = NoCall
    /\ batch = [snap |-> EmptyDb, outcome |-> "none", errors |-> 0]
    /\ hist = [fresh |-> TRUE, prev |-> <<>>, prevFresh |-> FALSE]
    /\ faults = 0
    /\ memo = <<>>

\* the lines a diary text of the model is made of: date lines with and without a
\* year, a date line that is no calendar date, one that is a calendar date in
\* leap years only, lines of text and the empty line
DiaryLineSet ==
    { <<>>,
      <<"1", "2", ".", "3", ".", "2", "0", "1", "9", ".">>,
      <<"1", "4", ".", "3", ".">>,
      <<"3", "2", ".", "3", ".">>,
      <<"2", "9", ".", "2", ".">>,
      <<"H", "e", "l", "l", "o">>,
      <<"W", "o", "r", "l", "d">> }

\* the lines a generated diary text may have
MaxLines == 4

\* "12.3.2020.\nHello\nWorld\n14.3.\nNext"
DiaryExample ==
    <<"1", "2", ".", "3", ".", "2", "0", "2", "0", ".", "\n", "H", "e", "l", "l", "o", "\n",
      "W", "o", "r", "l", "d", "\n", "1", "4", ".", "3", ".", "\n", "N", "e", "x", "t">>

\* "14.3.\n a  b" followed by TitleMax times "x", then "\n15.3.": a first line of
\* text longer than a title may be, and a date line with nothing after it
DiaryLong ==
    <<"1", "4", ".", "3", ".", "\n", " ", "a", " ", " ", "b">> \o [i \in 1..TitleMax |-> "x"]
        \o <<"\n", "1", "5", ".", "3", ".">>

DiaryTexts ==
    {join(ls) : ls \in UNION {[1..n -> DiaryLineSet] : n \in 1..MaxLines}}
        \cup {DiaryExample, DiaryLong}

\* the default year the caller gives
DefaultYears == {None, Some(2020)}

InitDiary ==
    /\ frame = None
    /\ Idle
    /\ arg \in [text : DiaryTexts, default_year : DefaultYears, today : Years]
    /\ ret = None

\* parse_diary_entries(text, default_year), called when date.today().year is today
ParseDiary ==
    /\ ret = None
    /\ ret' = Some(parse_diary_entries(arg.text, arg.default_year, arg.today))
    /\ UNCHANGED <<db, committed, pc, scan_root, clock, last, batch, hist, faults, memo, arg, frame>>

NextDiary == ParseDiary

SpecDiary == InitDiary /\ [][NextDiary]_vars

\* ------------------------------------------------------------------------
\* The parsers on their own: a call of parse_receipt_fields on one text
\* ------------------------------------------------------------------------

\* the words a receipt text of the model is made of: the two keywords, two
\* amounts and a currency marker
ReceiptWords ==
    { <<"M", "a", "k", "s", "e", "t", "t", "a", "v", "a">>,
      <<"Y", "h", "t", "e", "e", "n", "s", "a">>,
      <<"1", "2", ",", "5", "0">>,
      <<"1", "5", ",", "0", "0">>,
      <<"E", "U", "R">> }

\* the words a receipt text may have
MaxWords == 4

\* " ".join(words)
RECURSIVE JoinWords(_)
JoinWords(words) ==
    IF Len(words) = 0 THEN <<>>
    ELSE IF Len(words) = 1 THEN words[1]
    ELSE words[1] \o <<" ">> \o JoinWords(Tail(words))

ReceiptTexts ==
    {JoinWords(ws) : ws \in UNION {[1..n -> ReceiptWords] : n \in 1..MaxWords}}

InitReceipt ==
    /\ frame = None
    /\ Idle
    /\ arg \in [text : ReceiptTexts]
    /\ ret = None

\* parse_receipt_fields(text)
ParseReceipt ==
    /\ ret = None
    /\ ret' = Some(parse_receipt_fields(arg.text))
    /\ UNCHANGED <<db, committed, pc, scan_root, clock, last, batch, hist, faults, memo, arg, frame>>

NextReceipt == ParseReceipt

SpecReceipt == InitReceipt /\ [][NextReceipt]_vars

\* ------------------------------------------------------------------------
\* src/aeternitas/index/ingest/ingest.py and timeline/build.py on files of every
\* type of extract_text: the ingest_file calls of one batch on a new store, with
\* the library a file's type asks for installed or missing, and the rebuild
\* that ends the batch.  The store raises nowhere here.
\* ------------------------------------------------------------------------

\* the rows the revision table may reach
MaxFileRevs == 2

\* /r/d.odt, /r/2010-13-45.jpg (a name that holds the digits of a date which is
\* no calendar date) and /r/n (no suffix)
PathD == RootDir \o << <<"d", ".", "o", "d", "t">> >>

PathJ == RootDir \o << <<"2", "0", "1", "0", "-", "1", "3", "-", "4", "5", ".", "j", "p", "g">> >>

PathN == RootDir \o << <<"n">> >>

FilePaths == {PathD, PathJ, PathK, PathN}

\* "  31.2.2020 ": a date that is no calendar date, with white space around it
BadDate1 == <<" ", " ", "3", "1", ".", "2", ".", "2", "0", "2", "0", " ">>

FileData == {Receipt1, Note1, MalformedPdf, BadDate1}

\* whether the library the file's type asks for may be missing
LibStates(path) ==
    IF lower(Suffix(PathName(path))) \in PlainSuffixes \/ Suffix(PathName(path)) = <<>>
    THEN {TRUE} ELSE BOOLEAN

FileObs(data) == [kind |-> "file", mtime |-> 1, data |-> data]

InitFiles ==
    /\ frame = None
    /\ db = EmptyDb
    /\ committed = EmptyDb
    /\ pc = "start"
    /\ scan_root = None
    /\ clock = 2025
    /\ last = NoCall
    /\ batch = [snap |-> EmptyDb, outcome |-> "running", errors |-> 0]
    /\ hist = [fresh |-> TRUE, prev |-> <<>>, prevFresh |-> FALSE]
    /\ faults = 0
    /\ arg = None
    /\ ret = None
    /\ memo = [prepare |-> [k \in UNION {{<<path, None, FileObs(data), lib>> :
                                            data \in FileData, lib \in LibStates(path)} :
                                        path \in FilePaths}
                               |-> Prepare(k[1], k[2], k[3], k[4])],
               diary   |-> [k \in {<<PathName(path), text, clock>> :
                                      path \in FilePaths, text \in FileData \cup {<<>>}}
                               |-> DiaryRows(k[1], k[2], k[3])]]

\* one ingest_file call of the loop of cmd_ingest
FileIngest(path, data, lib) ==
    /\ pc \in {"start", "ingest"}
    /\ \E r \in {ingest_file(db, path, scan_root, FileObs(data), lib, 0, 0)} :
          /\ Len(r.db.revision) <= MaxFileRevs
          /\ db' = r.db
          /\ last' = [res |-> r.res, path |-> path, root |-> scan_root,
                      obs |-> FileObs(data), pypdf |-> lib, error |-> r.error,
                      before |-> Len(db.revision),
                      wrote |-> Len(r.db.revision) - Len(db.revision)]
    /\ pc' = "ingest"
    /\ UNCHANGED <<committed, scan_root, clock, batch, hist, faults, memo, arg, ret, frame>>

\* rebuild_timeline after the loop
FileRebuild ==
    /\ pc = "ingest"
    /\ db' = rebuild_timeline(db, clock)
    /\ pc' = "rebuilt"
    /\ UNCHANGED <<committed, scan_root, clock, last, batch, hist, faults, memo, arg, ret, frame>>

NextFiles ==
    \/ \E path \in FilePaths : \E data \in FileData : \E lib \in LibStates(path) :
          FileIngest(path, data, lib)
    \/ FileRebuild

SpecFiles == InitFiles /\ [][NextFiles]_vars

\* ------------------------------------------------------------------------
\* src/aeternitas/index/db/connection.py on an existing store: db_connect at the
\* start of cmd_ingest, on a store written before the pointer column existed (all
\* pointers NULL after ALTER TABLE) or left with some pointers set
\* ------------------------------------------------------------------------

\* the ingest_file calls that wrote the existing store, at most
MaxOldCalls == 3

OldCalls ==
    { [path |-> PathA, obs |-> [kind |-> "file", mtime |-> 1, data |-> Diary1], pypdf |-> TRUE],
      [path |-> PathA, obs |-> [kind |-> "file", mtime |-> 1, data |-> Diary2], pypdf |-> TRUE],
      [path |-> PathK, obs |-> [kind |-> "file", mtime |-> 1, data |-> Receipt1], pypdf |-> TRUE],
      [path |-> PathK, obs |-> [kind |-> "file", mtime |-> 1, data |-> Receipt1], pypdf |-> FALSE] }

\* the stores that up to n calls on a new store leave
RECURSIVE StoresAfter(_)
StoresAfter(n) ==
    IF n = 0 THEN {EmptyDb}
    ELSE LET prev == StoresAfter(n - 1)
         IN  prev \cup {ingest_file(d, c.path, None, c.obs, c.pypdf, 0, 0).db :
                           d \in prev, c \in OldCalls}

\* the store d with a further source that has no revision
WithBareSource(d) ==
    [d EXCEPT !.source = Append(@,
        [uri |-> UriOf(PathD, None), source_type |-> "file", scan_root |-> None,
         rel_path |-> Some(PathName(PathD)), mime |-> GuessMime(PathD),
         current_revision_id |-> None])]

\* the stores db_connect may find: the rows some calls wrote, with or without a
\* source that has no revision, each pointer NULL or at a revision of its source
OldStores ==
    LET bases == StoresAfter(MaxOldCalls)
        all   == bases \cup {WithBareSource(d) : d \in bases}
        ptrs(d, i) == {None} \cup {Some(r) : r \in {x \in 1..Len(d.revision) :
                                                        d.revision[x].source_id = i}}
    IN  UNION {{[d EXCEPT !.source = [i \in 1..Len(d.source) |->
                      [d.source[i] EXCEPT !.current_revision_id = f[i]]]] :
                  f \in {g \in [1..Len(d.source) ->
                                   {None} \cup {Some(r) : r \in 1..Len(d.revision)}] :
                            \A i \in 1..Len(d.source) : g[i] \in ptrs(d, i)}} :
               d \in all}

InitConnect ==
    /\ frame = None
    /\ memo = [prepare |-> PrepareTable, diary |-> DiaryTable]
    /\ committed \in OldStores
    /\ db = committed
    /\ arg = Some([store |-> committed])
    /\ pc = "idle"
    /\ scan_root = None
    /\ clock = 2025
    /\ last = NoCall
    /\ batch = [snap |-> EmptyDb, outcome |-> "none", errors |-> 0]
    /\ hist = [fresh |-> TRUE, prev |-> <<>>, prevFresh |-> FALSE]
    /\ faults = 0
    /\ ret = None

NextConnect == \E root \in ScanRoots : BatchStart(root)

SpecConnect == InitConnect /\ [][NextConnect]_vars

\* ------------------------------------------------------------------------
\* src/aeternitas/index/cli.py cmd_ingest with --scan-root: batches on the files
\* /r/a.txt and /q/a.txt, each without a scan root, with the scan root /r or with
\* the scan root /q, so that a file lies under the scan root of its batch or
\* outside it.  The store raises nowhere here.
\* ------------------------------------------------------------------------

RootQ == << <<"q">> >>

PathQ == RootQ \o << <<"a", ".", "t", "x", "t">> >>

RootPaths == {PathA, PathQ}

RootChoices == {None, Some(RootDir), Some(RootQ)}

RootObs == { [kind |-> "file", mtime |-> 1, data |-> Diary1],
             [kind |-> "file", mtime |-> 1, data |-> Diary2] }

InitRoots ==
    /\ frame = None
    /\ db = EmptyDb
    /\ committed = EmptyDb
    /\ pc = "idle"
    /\ scan_root = None
    /\ clock = 2025
    /\ last = NoCall
    /\ batch = [snap |-> EmptyDb, outcome |-> "none", errors |-> 0]
    /\ hist = [fresh |-> TRUE, prev |-> <<>>, prevFresh |-> FALSE]
    /\ faults = 0
    /\ arg = None
    /\ ret = None
    /\ memo = [prepare |-> [k \in {<<path, root, obs, TRUE>> :
                                      path \in RootPaths, root \in RootChoices,
                                      obs \in RootObs}
                               |-> Prepare(k[1], k[2], k[3], k[4])],
               diary   |-> DiaryTable]

NextRoots ==
    \/ \E root \in RootChoices : BatchStart(root)
    \/ \E path \in RootPaths, obs \in RootObs : IngestFile(path, obs, TRUE, 0, 0)
    \/ Rebuild(clock)
    \/ Commit

SpecRoots == InitRoots /\ [][NextRoots]_vars

\* ------------------------------------------------------------------------
\* src/aeternitas/index/extractors/text_extractors.py: extract_text called on a
\* file of the directory /r whose name is a stem followed by an ending, with plain
\* data, unreadable data or bytes that are not UTF-8, and with the library of
\* the suffix present or missing.
\* ------------------------------------------------------------------------

NameStems ==
    { <<"a">>, <<>>, <<"a", ".", "t", "x", "t">> }

NameEndings ==
    { <<>>, <<".">>, <<".", "t", "x", "t">>, <<".", "m", "d">>, <<".", "c", "s", "v">>,
      <<".", "l", "o", "g">>, <<".", "o", "d", "t">>, <<".", "p", "d", "f">>,
      <<".", "j", "p", "g">>, <<".", "j", "p", "e", "g">>, <<".", "p", "n", "g">>,
      <<".", "t", "i", "f">>, <<".", "t", "i", "f", "f">>, <<".", "T", "X", "T">>,
      <<".", "P", "d", "f">>, <<".", "J", "P", "G">>, <<".", "d", "o", "c">>,
      <<".", "t", "e", "x", "t">>, <<".", "t", "x">>, <<"t", "x", "t">> }

ExtractNames == {st \o e : st \in NameStems, e \in NameEndings} \ {<<>>, <<".">>}

Latin1Note == <<"k", Latin1Byte>>

ExtractData == {Note1, MalformedPdf, Latin1Note}

InitExtract ==
    /\ frame = None
    /\ Idle
    /\ arg \in [name : ExtractNames, data : ExtractData, lib : BOOLEAN]
    /\ ret = None

\* extract_text(path)
ExtractText ==
    /\ ret = None
    /\ ret' = Some(extract_text(RootDir \o <<arg.name>>, arg.data, arg.lib))
    /\ UNCHANGED <<db, committed, pc, scan_root, clock, last, batch, hist, faults, memo, arg, frame>>

NextExtract == ExtractText

SpecExtract == InitExtract /\ [][NextExtract]_vars

\* ------------------------------------------------------------------------
\* src/aeternitas/common/openai_client.py call_openai_responses.  frame holds
\* the locals of the call: pc ("loop" in the for loop, "after" behind it,
\* "returned", "raised"), attempt, last_err, body, and for the record the number
\* of requests sent and the delays slept.  One step is one pass of the loop: a
\* request, which urlopen ends within its timeout with a response, an HTTPError
\* or another exception, and the sleep that follows it.
\* ------------------------------------------------------------------------

\* max_retries of the calls, up to the default 5, and base_delay in seconds
MaxRetries == 5

BaseDelays == {1, 2}

\* the response bodies: with a text output, not JSON, with an error object, or
\* JSON without text output
BodyKinds == {"text", "nojson", "error", "notext"}

HttpCodes == {400, 401, 404, 429, 500, 501, 502, 503, 504}

HttpOutcomes ==
    {[kind |-> "ok", code |-> 200, body |-> b] : b \in BodyKinds}
        \cup {[kind |-> "http", code |-> c, body |-> "error"] : c \in HttpCodes}
        \cup {[kind |-> "other", code |-> 0, body |-> "nojson"]}

RECURSIVE Pow2(_)
Pow2(n) == IF n = 0 THEN 1 ELSE 2 * Pow2(n - 1)

\* a line 53 that retries every HTTP status
RetryableAny(code, attempt, max_retries) == attempt < max_retries

\* line 53: e.code in (429, 500, 502, 503, 504) and attempt < max_retries
Retryable(code, attempt, max_retries) ==
    code \in {429, 500, 502, 503, 504} /\ attempt < max_retries

\* line 68: attempt < max_retries
MayRetry(attempt, max_retries) == attempt < max_retries

\* lines 54 and 69: base_delay * (2 ** attempt)
Delay(base_delay, attempt) == base_delay * Pow2(attempt)

InitOpenAI ==
    /\ Idle
    /\ arg \in [max_retries : 0..MaxRetries, base_delay : BaseDelays]
    /\ ret = None
    /\ frame = Some([pc |-> "loop", attempt |-> 0, last_err |-> None, body |-> None,
                     requests |-> 0, sleeps |-> <<>>])

\* lines 45-73: one pass of `for attempt in range(max_retries + 1)`
HttpAttempt(out) ==
    /\ frame # None
    /\ Get(frame).pc = "loop"
    /\ Get(frame).attempt <= arg.max_retries
    /\ \E f \in {[Get(frame) EXCEPT !.requests = @ + 1]} :
       \E retry \in {[f EXCEPT !.last_err = Some(out), !.attempt = @ + 1,
                                !.sleeps = Append(@, Delay(arg.base_delay, f.attempt)),
                                !.pc = IF f.attempt + 1 <= arg.max_retries
                                       THEN "loop" ELSE "after"]} :
          /\ frame' = Some(IF out.kind = "ok"
                           THEN [f EXCEPT !.body = Some(out.body), !.last_err = None,
                                          !.pc = "after"]
                           ELSE IF out.kind = "http"
                           THEN IF Retryable(out.code, f.attempt, arg.max_retries)
                                THEN retry
                                ELSE [f EXCEPT !.last_err = Some(out), !.pc = "raised"]
                           ELSE IF MayRetry(f.attempt, arg.max_retries)
                                THEN retry
                                ELSE [f EXCEPT !.last_err = Some(out), !.pc = "raised"])
          /\ ret' = IF frame'[1].pc = "raised" THEN Some("OpenAIError") ELSE ret
    /\ UNCHANGED <<db, committed, pc, scan_root, clock, last, batch, hist, faults, memo, arg>>

\* a parse that returns whatever the loop left
parse_response_lenient(f) == [f EXCEPT !.pc = "returned"]

\* lines 75-113: behind the loop, a pending error raises, the response is parsed,
\* its text output is returned and everything else raises OpenAIError
parse_response(f) ==
    IF f.last_err = None /\ f.body = Some("text")
    THEN [f EXCEPT !.pc = "returned"]
    ELSE [f EXCEPT !.pc = "raised"]

ParseResponse ==
    /\ frame # None
    /\ Get(frame).pc = "after"
    /\ frame' = Some(parse_response(Get(frame)))
    /\ ret' = IF frame'[1].pc = "returned" THEN Some("output_text") ELSE Some("OpenAIError")
    /\ UNCHANGED <<db, committed, pc, scan_root, clock, last, batch, hist, faults, memo, arg>>

NextOpenAI ==
    \/ \E out \in HttpOutcomes : HttpAttempt(out)
    \/ ParseResponse

SpecOpenAI == InitOpenAI /\ [][NextOpenAI]_vars

\* urlopen has a timeout and time.sleep ends: the call goes on while it can
SpecOpenAILive == SpecOpenAI /\ WF_vars(NextOpenAI)

\* ------------------------------------------------------------------------
\* src/aeternitas/index/narrate.py chunk_text, called on every text of up to
\* MaxTextLen characters over a letter and the newline, with max_chars from 1
\* to MaxChars.
\* ------------------------------------------------------------------------

MaxTextLen == 6

MaxChars == 3

ChunkTexts == UNION {[1..n -> {"a", "\n"}] : n \in 0..MaxTextLen}

\* lines 44-51: the body of the loop on one line, st the locals chunks, cur and
\* cur_len
chunk_line(st, line, max_chars) ==
    IF st.cur_len + Len(line) + 1 > max_chars /\ st.cur # <<>>
    THEN [chunks |-> Append(st.chunks, join(st.cur)), cur |-> <<line>>,
          cur_len |-> Len(line) + 1]
    ELSE [chunks |-> st.chunks, cur |-> Append(st.cur, line),
          cur_len |-> st.cur_len + Len(line) + 1]

\* line 43: the loop over the lines from the i-th on
RECURSIVE chunk_loop(_, _, _, _)
chunk_loop(st, lines, i, max_chars) ==
    IF i > Len(lines) THEN st
    ELSE chunk_loop(chunk_line(st, lines[i], max_chars), lines, i + 1, max_chars)

\* chunk_text(text, max_chars)
chunk_text(text, max_chars) ==
    IF Len(text) <= max_chars THEN <<text>>
    ELSE LET st == chunk_loop([chunks |-> <<>>, cur |-> <<>>, cur_len |-> 0],
                              splitlines(text), 1, max_chars)
         IN  IF st.cur # <<>> THEN Append(st.chunks, join(st.cur)) ELSE st.chunks

InitChunk ==
    /\ frame = None
    /\ Idle
    /\ arg \in [text : ChunkTexts, max_chars : 1..MaxChars]
    /\ ret = None

ChunkText ==
    /\ arg # None
    /\ ret = None
    /\ ret' = Some(chunk_text(arg.text, arg.max_chars))
    /\ UNCHANGED <<db, committed, pc, scan_root, clock, last, batch, hist, faults, memo, arg, frame>>

NextChunk == ChunkText

SpecChunk == InitChunk /\ [][NextChunk]_vars

\* ------------------------------------------------------------------------
\* src/manifest.py iter_entries.  A file system is the sequence of its entries:
\* entry 1 is the root directory, every other entry lies in a directory before
\* it and is a directory, a regular file, a symbolic link to any entry (itself,
\* its directory and the root included) or something else (a socket, a device).
\* frame holds the locals of the generator: the stack, and for the record what
\* it has yielded and the directories it has scanned.
\* ------------------------------------------------------------------------

MaxNodes == 4

RootEntry == [kind |-> "dir", parent |-> 0, target |-> 0]

\* the entries that can be added to the file system fs
NewEntries(fs) ==
    {[kind |-> k, parent |-> p, target |-> 0] :
        k \in {"dir", "file", "other"}, p \in {i \in 1..Len(fs) : fs[i].kind = "dir"}}
    \cup {[kind |-> "symlink", parent |-> p, target |-> t] :
             p \in {i \in 1..Len(fs) : fs[i].kind = "dir"}, t \in 1..MaxNodes}

RECURSIVE FileSystems(_)
FileSystems(n) ==
    IF n = 1 THEN {<<RootEntry>>}
    ELSE UNION {{Append(fs, e) : e \in NewEntries(fs)} : fs \in FileSystems(n - 1)}

\* os.scandir(d): the entries of the directory d, in the order of the sequence
Entries(fs, d) == SelectSeq([i \in 1..Len(fs) |-> i], LAMBDA i : fs[i].parent = d)

\* an entry.is_symlink() that is never true
entry_is_symlink_never(fs, e) == FALSE

\* line 167: entry.is_symlink()
entry_is_symlink(fs, e) == fs[e].kind = "symlink"

\* lines 163-191: the body of the loop over the entries of a directory, on the
\* entry e
scan_entry(fs, st, e) ==
    IF entry_is_symlink(fs, e)
    THEN [st EXCEPT !.yielded = Append(@, [entry |-> e, kind |-> "symlink",
                                           target |-> fs[e].target])]
    ELSE IF fs[e].kind = "dir"
    THEN [st EXCEPT !.stack = Append(@, e)]
    ELSE IF fs[e].kind = "file"
    THEN [st EXCEPT !.yielded = Append(@, [entry |-> e, kind |-> "file", target |-> 0])]
    ELSE st

\* line 162: the loop over the entries es from the i-th on
RECURSIVE scan_entries(_, _, _, _)
scan_entries(fs, st, es, i) ==
    IF i > Len(es) THEN st ELSE scan_entries(fs, scan_entry(fs, st, es[i]), es, i + 1)

InitWalk ==
    /\ Idle
    /\ arg \in [fs : FileSystems(MaxNodes), include_dirs : BOOLEAN]
    /\ ret = None
    /\ frame = Some([stack |-> <<1>>, yielded |-> <<>>, scanned |-> <<>>])

\* lines 153-194: one pass of `while stack`, in which os.scandir(d) lists the
\* directory (ok) or raises PermissionError or FileNotFoundError
WalkDir(ok) ==
    /\ frame # None
    /\ Get(frame).stack # <<>>
    /\ \E st \in {Get(frame)} : \E d \in {st.stack[Len(st.stack)]} :
       \E popped \in {[stack   |-> SubSeq(st.stack, 1, Len(st.stack) - 1),
                        yielded |-> IF arg.include_dirs
                                    THEN Append(st.yielded,
                                                [entry |-> d, kind |-> "dir", target |-> 0])
                                    ELSE st.yielded,
                        scanned |-> Append(st.scanned, [dir |-> d, ok |-> ok])]} :
          frame' = Some(IF ok THEN scan_entries(arg.fs, popped, Entries(arg.fs, d), 1)
                        ELSE popped)
    /\ ret' = IF frame'[1].stack = <<>> THEN Some("StopIteration") ELSE ret
    /\ UNCHANGED <<db, committed, pc, scan_root, clock, last, batch, hist, faults, memo, arg>>

NextWalk == \E ok \in BOOLEAN : WalkDir(ok)

SpecWalk == InitWalk /\ [][NextWalk]_vars

\* os.scandir returns or raises: the generator goes on while its stack is not
\* empty
SpecWalkLive == SpecWalk /\ WF_vars(NextWalk)

\* ------------------------------------------------------------------------
\* Properties of the store and of ingest_file
\* ------------------------------------------------------------------------

\* how a call that returns to the loop of cmd_ingest may have ended
Returned == {"skipped", "symlink", "ok", "error", "stored-error"}

\* the step is an ingest_file call of the loop
IsCall ==
    /\ pc \in {"start", "ingest"}
    /\ pc' \in {"ingest", "idle"}
    /\ last'.res # "interrupted"

\* the call of the step has the inputs of the call before it: the same path under
\* the same scan root, the same file state, the same installation
SameAgain ==
    /\ IsCall
    /\ last'.path = last.path
    /\ last'.root = last.root
    /\ last'.obs = last.obs
    /\ last'.pypdf = last.pypdf

\* the fingerprint ingest_file observes for a file state
ShaOf(obs) == IF obs.kind = "symlink" THEN None ELSE Some(sha256_file(obs.data))

\* the source rows of the last call's file
LastSources ==
    {s \in 1..Len(db.source) : db.source[s].uri = UriOf(last.path, last.root)}

\* the revisions the last call's source had when the call began
PriorRevs ==
    {i \in 1..Len(db.revision) :
        /\ i <= last.before
        /\ db.revision[i].source_id \in LastSources}

\* the latest revision the last call found has the size, modification time and
\* fingerprint the call observed, and status ok
PriorMatches ==
    /\ PriorRevs # {}
    /\ LET r == db.revision[Max(PriorRevs)]
       IN  /\ r.size = StatOf(last.obs).st_size
           /\ r.mtime = StatOf(last.obs).st_mtime
           /\ r.sha256 = ShaOf(last.obs)
           /\ r.status = "ok"

PointerIsLatest(d) ==
    \A s \in 1..Len(d.source) :
        latest_revision(d, s) # None =>
            d.source[s].current_revision_id = latest_revision(d, s)

\* C1: in the store a batch works on and in the committed store, every source that
\* has a revision points, with current_revision_id, at its revision of the highest
\* id, whatever the status of that revision.
C1_PointerIsLatest == PointerIsLatest(db) /\ PointerIsLatest(committed)

\* a committed source with two revisions, the later one an error revision
C1_Witness ==
    \E s \in 1..Len(committed.source) :
        /\ Cardinality({i \in 1..Len(committed.revision) :
                           committed.revision[i].source_id = s}) >= 2
        /\ committed.revision[Get(latest_revision(committed, s))].status = "error"
        /\ committed.source[s].current_revision_id = latest_revision(committed, s)

C3_SkipPolicy ==
    last.res \in Returned =>
        /\ (last.res = "skipped") <=> PriorMatches
        /\ last.res = "skipped" => last.wrote = 0
        /\ last.res # "skipped" => last.wrote >= 1

\* a call that wrote a revision because only the fingerprint differed from that of
\* the latest revision, an ok revision of the same size and modification time
C3_Witness ==
    /\ last.res = "ok"
    /\ last.wrote = 1
    /\ PriorRevs # {}
    /\ LET r == db.revision[Max(PriorRevs)]
       IN  /\ r.size = StatOf(last.obs).st_size
           /\ r.mtime = StatOf(last.obs).st_mtime
           /\ r.status = "ok"
           /\ r.sha256 # ShaOf(last.obs)

C5_ExtractionErrorContained ==
    last.res = "error" =>
        /\ Len(db.revision) = last.before + 1
        /\ db.revision[last.before + 1].status = "error"
        /\ db.revision[last.before + 1].error =
              Some(extract_text(last.path, last.obs.data, last.pypdf).error)
        /\ Cardinality({i \in 1..Len(db.doc) :
                           db.doc[i].revision_id = last.before + 1}) = 1
        /\ \A i \in 1..Len(db.doc) :
              db.doc[i].revision_id = last.before + 1 => db.doc[i].text = <<>>
        /\ batch.outcome # "aborted"
        /\ pc = "idle" => batch.outcome = "committed"

\* a committed batch in which one file failed in extraction and a later file was
\* ingested with status ok
C5_Witness ==
    /\ batch.outcome = "committed"
    /\ batch.errors = 1
    /\ last.res = "ok"
    /\ last.before >= 1
    /\ committed.revision[last.before].status = "error"
    /\ committed.revision[last.before + 1].status = "ok"

\* ------------------------------------------------------------------------
\* Properties of cmd_ingest and rebuild_timeline
\* ------------------------------------------------------------------------

\* C6, as stated: when stat fails for a file of a batch that has already ingested
\* another file, the file is skipped: the batch goes on and the revisions written
\* for the other file are still in its store.
C6_StatFailureSkipsFile ==
    (last.res = "statfail" /\ last.before > Len(committed.revision))
        => /\ pc = "ingest"
           /\ batch.outcome = "running"
           /\ Len(db.revision) = last.before

\* C7: while a batch runs the committed store is the store at its start; after an
\* abort (an exception out of ingest_file, an interrupt) the store is the store at
\* the start of the batch; after a commit the committed store is all the batch
\* wrote, the rebuilt timeline included.
C7_BatchAtomic ==
    /\ pc # "idle" => committed = batch.snap
    /\ batch.outcome = "aborted" => (committed = batch.snap /\ db = batch.snap)
    /\ batch.outcome = "committed" => (pc = "idle" => committed = db)

\* a batch aborted after it had written revisions
C7_Witness ==
    /\ batch.outcome = "aborted"
    /\ pc = "idle"
    /\ last.res \in {"raised", "statfail"}
    /\ last.before > Len(committed.revision)
    /\ committed = batch.snap

\* C8, as stated: a call in which the store raised ends by the exception, which
\* aborts the batch; no committed revision records a store error as the error of
\* a file.
C8_StoreErrorAborts ==
    /\ last.error = Some(StoreError) => last.res = "raised"
    /\ \A i \in 1..Len(committed.revision) :
          committed.revision[i].error # Some(StoreError)

\* every timeline row of d references a document whose revision has status ok and
\* is the current revision of a source
TimelineCurrent(d) ==
    \A k \in 1..Len(d.timeline) :
        /\ d.timeline[k].doc_id \in 1..Len(d.doc)
        /\ LET rid == d.doc[d.timeline[k].doc_id].revision_id
           IN  /\ rid \in 1..Len(d.revision)
               /\ d.revision[rid].status = "ok"
               /\ \E s \in 1..Len(d.source) :
                     d.source[s].current_revision_id = Some(rid)

\* C9: right after rebuild_timeline, and in every committed store, every timeline
\* row references a document whose revision has status ok and is the current
\* revision of a source: no row of a superseded or error revision, no row left by
\* an earlier rebuild.
C9_TimelineCurrent ==
    /\ pc = "rebuilt" => TimelineCurrent(db)
    /\ TimelineCurrent(committed)

\* a rebuild whose store held, before it, a timeline row of a document that is
\* superseded now
C9_Witness ==
    /\ pc = "rebuilt"
    /\ db.timeline # <<>>
    /\ \E k \in 1..Len(hist.prev) :
          \A s \in 1..Len(db.source) :
              db.source[s].current_revision_id #
                  Some(db.doc[hist.prev[k].doc_id].revision_id)

\* C10, as stated: a rebuild that follows a rebuild, with no revision written in
\* between, leaves the set of timeline rows it found.
C10_RebuildTwice ==
    (pc = "rebuilt" /\ hist.prevFresh) => Range(db.timeline) = Range(hist.prev)

\* ------------------------------------------------------------------------
\* Properties of cmd_search and of the full-text index
\* ------------------------------------------------------------------------

\* the document id of d belongs to a revision of status ok that is the latest
\* revision of its source and the one the source points at
CurrentOk(d, id) ==
    /\ id \in 1..Len(d.doc)
    /\ LET rid == d.doc[id].revision_id
           sid == d.revision[rid].source_id
       IN  /\ d.revision[rid].status = "ok"
           /\ d.source[sid].current_revision_id = Some(rid)
           /\ latest_revision(d, sid) = Some(rid)

\* C11: in the committed store, which cmd_search reads, and in the store a batch
\* works on, every document a query returns belongs to a revision of status ok
\* that is the current and latest revision of its source: no document of a source
\* whose current revision is an error revision, no document of a superseded
\* revision.
C11_SearchCurrentOk ==
    /\ \A q \in Queries : \A id \in cmd_search(committed, q) : CurrentOk(committed, id)
    /\ db # committed =>
          \A q \in Queries : \A id \in cmd_search(db, q) : CurrentOk(db, id)

\* a committed store in which a query matches, in the index, the document of a
\* superseded revision and the document of the current ok revision of the same
\* source, and returns the second only
C11_Witness ==
    \E q \in Queries : \E old \in committed.doc_fts :
        /\ fts_match(old, q)
        /\ cmd_search(committed, q) # {}
        /\ old.rowid \notin cmd_search(committed, q)
        /\ \E id \in cmd_search(committed, q) :
              committed.revision[committed.doc[id].revision_id].source_id =
                  committed.revision[committed.doc[old.rowid].revision_id].source_id

\* the revisions of source s in d, and the documents of these revisions
SourceRevs(d, s) == {i \in 1..Len(d.revision) : d.revision[i].source_id = s}

DocsOfSource(d, s) == {id \in 1..Len(d.doc) : d.doc[id].revision_id \in SourceRevs(d, s)}

\* the timeline rows of document id, in the order of the timeline
RowsOfDoc(d, id) == SelectSeq(d.timeline, LAMBDA row : row.doc_id = id)

\* no view of d shows source s: no timeline row of one of its documents, no query
\* that returns one of its documents
Hidden(d, s) ==
    /\ \A id \in DocsOfSource(d, s) : RowsOfDoc(d, id) = <<>>
    /\ \A q \in Queries : cmd_search(d, q) \cap DocsOfSource(d, s) = {}

\* both views of d show source s by the document of its revision rid and by no
\* other: every query that matches the title or the text of that document returns
\* it, and the timeline holds the rows a rebuild derives from that document
Visible(d, s, rid) ==
    LET ids == {id \in 1..Len(d.doc) : d.doc[id].revision_id = rid}
    IN  /\ Cardinality(ids) = 1
        /\ \A id \in DocsOfSource(d, s) \ ids : RowsOfDoc(d, id) = <<>>
        /\ \A q \in Queries : cmd_search(d, q) \cap DocsOfSource(d, s) \subseteq ids
        /\ \A id \in ids :
              /\ \A q \in Queries :
                    fts_match([title |-> d.doc[id].title, text |-> d.doc[id].text], q)
                        => id \in cmd_search(d, q)
              /\ \E today \in Years : RowsOfDoc(d, id) = DocEntries(d, id, today)

\* source s of d has an error revision before its latest revision
FailedBefore(d, s) ==
    \E i \in SourceRevs(d, s) : d.revision[i].status = "error" /\ i < Max(SourceRevs(d, s))

\* C12: every step that changes the committed store (the commit of a batch) keeps
\* every committed error revision as it is, error text included, and leaves a
\* store in which a source whose latest ingestion ended in an error revision is in
\* no view, whatever ok revisions it has from before, and a source whose latest
\* revision is an ok revision written after an error revision is in both views by
\* the document of that ok revision.
C12_HiddenUntilOk ==
    [][committed' # committed =>
         /\ \A i \in 1..Len(committed.revision) :
               committed.revision[i].status = "error" =>
                   /\ i <= Len(committed'.revision)
                   /\ committed'.revision[i] = committed.revision[i]
         /\ \A s \in 1..Len(committed'.source) :
               SourceRevs(committed', s) # {} =>
                   LET rid == Max(SourceRevs(committed', s))
                   IN  /\ committed'.revision[rid].status = "error" =>
                             /\ committed'.revision[rid].error # None
                             /\ Hidden(committed', s)
                       /\ (committed'.revision[rid].status = "ok"
                               /\ FailedBefore(committed', s)) =>
                             Visible(committed', s, rid)]_vars

\* a committed store in which a source has an ok revision, whose document matches
\* a query in the index, and after it the error revision of the last call, a call
\* that found the ok revision: the timeline has no row and the query no result
C12_Witness ==
    /\ pc = "idle"
    /\ batch.outcome = "committed"
    /\ last.res \in {"error", "stored-error"}
    /\ \E s \in 1..Len(committed.source) : \E i \in SourceRevs(committed, s) :
          /\ committed.source[s].uri = UriOf(last.path, last.root)
          /\ i <= last.before
          /\ committed.revision[i].status = "ok"
          /\ committed.revision[Max(SourceRevs(committed, s))].status = "error"
          /\ Hidden(committed, s)
          /\ \E q \in Queries : \E x \in committed.doc_fts :
                /\ x.rowid \in DocsOfSource(committed, s)
                /\ fts_match(x, q)
                /\ cmd_search(committed, q) = {}

\* the index of d holds the tuple (id, title, text) of every row of doc and no
\* other tuple
FtsMirrors(d) ==
    d.doc_fts = {[rowid |-> i, title |-> d.doc[i].title, text |-> d.doc[i].text] :
                    i \in LiveDocs(d)}

\* C13: after every INSERT, UPDATE and DELETE on doc, inside a transaction and
\* after its commit or rollback, the full-text index holds exactly the tuple
\* (id, title, text) of every row of doc: one tuple per row and nothing else.
C13_FtsMirrorsDoc ==
    /\ FtsMirrors(db)
    /\ FtsMirrors(committed)
    /\ Cardinality(db.doc_fts) = Cardinality(LiveDocs(db))

\* inside a transaction, a row of doc was deleted and the row after it, which
\* keeps its id, was updated to another title and text
C13_Witness ==
    /\ db # committed
    /\ Len(db.doc) = 2
    /\ db.doc[1] = Deleted
    /\ db.doc[2] # Deleted
    /\ db.doc[2].title # committed.doc[2].title
    /\ db.doc[2].text # committed.doc[2].text
    /\ db.doc_fts # {}

\* ------------------------------------------------------------------------
\* Properties of the revision and doc tables
\* ------------------------------------------------------------------------

\* in d every revision has exactly one document and every document belongs to a
\* revision of d
OneDocPerRevision(d) ==
    /\ \A r \in 1..Len(d.revision) :
          Cardinality({i \in LiveDocs(d) : d.doc[i].revision_id = r}) = 1
    /\ \A i \in LiveDocs(d) : d.doc[i].revision_id \in 1..Len(d.revision)

\* C14, as stated: in the store a batch works on, after every ingest_file call
\* that returned, and in the committed store, every revision has exactly one
\* document and every document belongs to exactly one revision.
C14_OneDocPerRevision ==
    /\ last.res \in Returned => OneDocPerRevision(db)
    /\ OneDocPerRevision(committed)

\* C15, as stated: an ingest_file call that returned and was not skipped added
\* exactly one revision, and that revision belongs to the source of its file.
C15_OneRevisionPerCall ==
    last.res \in Returned \ {"skipped"} =>
        /\ last.wrote = 1
        /\ Len(db.revision) > last.before =>
              db.source[db.revision[last.before + 1].source_id].uri =
                  UriOf(last.path, last.root)

\* the rows of a are the first rows of b, unchanged
IsPrefixOf(a, b) == Len(a) <= Len(b) /\ SubSeq(b, 1, Len(a)) = a

\* the step rolls the transaction of a batch back
Aborts == pc # "idle" /\ batch'.outcome = "aborted"

\* C16: every step that is not the rollback of a batch (an ingest_file call that
\* returns, rebuild_timeline, db_connect, the commit) leaves every revision row and
\* every document row of the batch's store in place and unchanged, new rows coming
\* after them; and no step at all changes or removes a committed row.
C16_AppendOnly ==
    [][/\ ~Aborts => /\ IsPrefixOf(db.revision, db'.revision)
                      /\ IsPrefixOf(db.doc, db'.doc)
       /\ IsPrefixOf(committed.revision, committed'.revision)
       /\ IsPrefixOf(committed.doc, committed'.doc)]_vars

\* a rebuild ran on a store that holds the document of a superseded revision and
\* the document of an error revision, and left both as the calls wrote them
C16_Witness ==
    /\ pc = "rebuilt"
    /\ Len(db.doc) = 2
    /\ db.revision[db.doc[2].revision_id].status = "error"
    /\ db.revision[db.doc[1].revision_id].status = "ok"
    /\ db.revision[db.doc[1].revision_id].source_id = db.revision[db.doc[2].revision_id].source_id
    /\ db.doc[1].text # <<>>
    /\ committed.doc = <<db.doc[1]>>

\* ------------------------------------------------------------------------
\* Properties of ingest_file on a symbolic link
\* ------------------------------------------------------------------------

\* the documents of d whose revision was written for a link
LinkDocs(d) ==
    {id \in LiveDocs(d) : d.revision[d.doc[id].revision_id].extractor = "symlink"}

IsDateLine(line) == DATE_LINE_RE(strip(line)) # None

\* the day, month and year a date line names in a call with arguments a
DateOfLine(line, a) ==
    LET m == Get(DATE_LINE_RE(strip(line)))
    IN  [y |-> DiaryYear(m, a.default_year, a.today), m |-> ToInt(m.mo), d |-> ToInt(m.d)]

\* the line is a date line that names a calendar date
IsValidDateLine(line, a) ==
    \E m \in {DATE_LINE_RE(strip(line))} :
        /\ m # None
        /\ ValidDate(DiaryYear(Get(m), a.default_year, a.today), ToInt(Get(m).mo), ToInt(Get(m).d))

\* the text of a without its date lines that name no calendar date
WithoutInvalid(a) ==
    join(SelectSeq(splitlines(a.text),
                   LAMBDA line : ~(IsDateLine(line) /\ ~IsValidDateLine(line, a))))

\* C18, as stated: a date line that names no calendar date is as good as absent:
\* the call returns what it returns on the text without these lines, so that the
\* lines after such a line go on into the body of the entry open before it, or
\* are dropped when none is open.
C18_InvalidDateIgnored ==
    ret # None => Get(ret) = parse_diary_entries(WithoutInvalid(arg), arg.default_year, arg.today)

\* the positions of the valid date lines among lines, and the k-th of a set V of
\* positions
ValidDateLines(lines, a) == {i \in 1..Len(lines) : IsValidDateLine(lines[i], a)}

NthValid(V, k) == CHOOSE i \in V : Cardinality({j \in V : j <= i}) = k

\* the lines after line i up to the next date line, or to the end of the text
LinesAfter(lines, i) ==
    LET next == Min({j \in (i + 1)..Len(lines) : IsDateLine(lines[j])} \cup {Len(lines) + 1})
    IN  SubSeq(lines, i + 1, next - 1)

\* the two entries of the example
ExampleEntries ==
    << [date |-> [y |-> 2020, m |-> 3, d |-> 12],
        title |-> <<"H", "e", "l", "l", "o">>,
        body |-> <<"H", "e", "l", "l", "o", "\n", "W", "o", "r", "l", "d">>],
       [date |-> [y |-> 2020, m |-> 3, d |-> 14],
        title |-> <<"N", "e", "x", "t">>,
        body |-> <<"N", "e", "x", "t">>] >>

\* C19: the call returns one entry per valid date line, in the order of the lines;
\* the k-th entry has the date of the k-th valid date line and its body is the
\* lines between that line and the next date line, joined by newlines (without
\* the white space around the whole); and the example text with default year 2020
\* gives exactly the two entries of the example.
C19_EntryPerDateLine ==
    ret # None =>
        \A es \in {Get(ret)} : \A lines \in {splitlines(arg.text)} :
        \A V \in {ValidDateLines(lines, arg)} :
            /\ Len(es) = Cardinality(V)
            /\ \A k \in 1..Len(es) : \A i \in {NthValid(V, k)} :
                  /\ es[k].date = DateOfLine(lines[i], arg)
                  /\ es[k].body = strip(join(LinesAfter(lines, i)))
            /\ (arg.text = DiaryExample /\ arg.default_year = Some(2020)) =>
                  es = ExampleEntries

\* the call on the example text with default year 2020 has returned two entries
C19_Witness ==
    /\ arg # None
    /\ arg.text = DiaryExample
    /\ arg.default_year = Some(2020)
    /\ ret # None
    /\ Len(Get(ret)) = 2

\* ------------------------------------------------------------------------
\* Properties of parse_receipt_fields
\* ------------------------------------------------------------------------

\* an amount (digits, a comma or a point, two digits) starts at i of s
AmountStartsAt(s, i) == AmountEnd(s, i) # 0 /\ (i = 1 \/ ~IsDigit(s[i - 1]))

\* the first amount of s that follows an occurrence of the keyword kw, in any
\* case of the letters: None or Some of the amount as written
FirstAmountAfter(s, kw) ==
    LET at   == {i \in 1..Len(s) : StartsAtCI(s, i, kw)}
        amts == {j \in 1..Len(s) : AmountStartsAt(s, j) /\ at # {} /\ j >= Min(at) + Len(kw)}
    IN  IF amts = {} THEN None
        ELSE Some(SubSeq(s, Min(amts), AmountEnd(s, Min(amts)) - 1))

\* the total the claimed precedence gives for the text s
ClaimedTotal(s) ==
    IF FirstAmountAfter(s, Maksettava) # None
    THEN Some(CommaToDot(Get(FirstAmountAfter(s, Maksettava))))
    ELSE IF FirstAmountAfter(s, Yhteensa) # None
    THEN Some(CommaToDot(Get(FirstAmountAfter(s, Yhteensa))))
    ELSE IF LastEurAmount(s, 1, None) # None
    THEN Some(CommaToDot(Get(LastEurAmount(s, 1, None))))
    ELSE None

\* C20, as stated: the total is the first amount following the payable keyword if
\* there is one, otherwise the first amount following the total keyword,
\* otherwise the last amount followed by a currency marker, otherwise absent; and
\* a text that holds both "Maksettava 12,50" and "Yhteensa 15,00" gives "12.50".
C20_TotalPrecedence ==
    ret # None =>
        /\ Get(ret).total = ClaimedTotal(arg.text)
        /\ (/\ Contains(arg.text, <<"M", "a", "k", "s", "e", "t", "t", "a", "v", "a", " ",
                                     "1", "2", ",", "5", "0">>)
            /\ Contains(arg.text, <<"Y", "h", "t", "e", "e", "n", "s", "a", " ",
                                     "1", "5", ",", "0", "0">>))
              => Get(ret).total = Some(<<"1", "2", ".", "5", "0">>)

\* ------------------------------------------------------------------------
\* Properties of the timeline rows of one document
\* ------------------------------------------------------------------------

\* the timeline rows of d of one kind that reference the document id
KindRows(d, id, kind) ==
    {k \in 1..Len(d.timeline) : d.timeline[k].doc_id = id /\ d.timeline[k].kind = kind}

\* the metadata of the document row carries a receipt with a date
HasDatedReceipt(row) == "receipt" \in DOMAIN row.json /\ row.json.receipt.date # None

\* every document of a current ok revision of d has one receipt row and no diary
\* row when its metadata carries a dated receipt, and otherwise no receipt row
\* and one diary row per entry parsed from its text, EntriesMax at most
ReceiptOrDiary(d, today) ==
    /\ \A k \in 1..Len(d.timeline) : d.timeline[k].kind \in {"receipt", "diary_entry"}
    /\ \A id \in CurrentOkDocs(d) :
          IF HasDatedReceipt(d.doc[id])
          THEN /\ Cardinality(KindRows(d, id, "receipt")) = 1
               /\ KindRows(d, id, "diary_entry") = {}
          ELSE /\ KindRows(d, id, "receipt") = {}
               /\ Cardinality(KindRows(d, id, "diary_entry")) =
                      Min({EntriesMax,
                           Len(parse_diary_entries(d.doc[id].text,
                                                   infer_year_from_path(d.doc[id].title),
                                                   today))})

\* C21: right after rebuild_timeline, and in the store a batch committed, each
\* document of a current ok revision has either exactly one receipt row and no
\* diary_entry row (exactly when its metadata carries a receipt with a date), or
\* only diary_entry rows, one per parsed diary entry and at most 2000; no document
\* has rows of both kinds.
C21_ReceiptOrDiary ==
    /\ pc = "rebuilt" => ReceiptOrDiary(db, clock)
    /\ (pc = "idle" /\ batch.outcome = "committed") => ReceiptOrDiary(committed, clock)

\* a rebuild that gave a receipt row for one document and diary rows for another,
\* whose text holds a date line as the receipt's text does
C21_Witness ==
    /\ pc = "rebuilt"
    /\ \E i, j \in CurrentOkDocs(db) :
          /\ HasDatedReceipt(db.doc[i])
          /\ KindRows(db, i, "receipt") # {}
          /\ parse_diary_entries(db.doc[i].text, None, clock) # <<>>
          /\ ~HasDatedReceipt(db.doc[j])
          /\ KindRows(db, j, "diary_entry") # {}

\* ------------------------------------------------------------------------
\* Properties of ingest_file on the types of files
\* ------------------------------------------------------------------------

\* the suffix of the path asks for a library: odfpy, pypdf, pillow and pytesseract
NeedsLibrary(path) ==
    \/ lower(Suffix(PathName(path))) \in {<<".", "o", "d", "t">>, <<".", "p", "d", "f">>}
    \/ lower(Suffix(PathName(path))) \in ImageSuffixes

\* C22: a call on a file whose type needs a library that is missing, when the
\* change detector does not skip it, writes one revision, of status error, that
\* carries a non-empty error message, with a document of empty text; it writes no
\* revision of status ok.
C22_MissingCapabilityIsError ==
    (/\ last.res \in Returned \ {"skipped"}
     /\ last.obs.kind = "file"
     /\ NeedsLibrary(last.path)
     /\ ~last.pypdf
     /\ pc = "ingest")
        => /\ last.res = "error"
           /\ last.wrote = 1
           /\ Len(db.revision) = last.before + 1
           /\ db.revision[Len(db.revision)].status = "error"
           /\ db.revision[Len(db.revision)].error # None
           /\ db.revision[Len(db.revision)].error = last.error
           /\ Get(last.error) # ""
           /\ \E s \in 1..Len(db.source) :
                 /\ db.source[s].uri = UriOf(last.path, last.root)
                 /\ db.source[s].current_revision_id = Some(Len(db.revision))

\* two calls on files of two types have each met a missing library: the last
\* one, on an office document or an image, and the one before it
C22_Witness ==
    /\ pc = "ingest"
    /\ last.res = "error"
    /\ ~last.pypdf
    /\ last.path \in {PathD, PathJ}
    /\ last.obs.data = Receipt1
    /\ last.before = 1
    /\ db.revision[1].status = "error"
    /\ db.revision[1].source_id # db.revision[2].source_id

\* ------------------------------------------------------------------------
\* Properties of db_connect
\* ------------------------------------------------------------------------

\* the store new is the store old with the NULL pointers of the sources that have
\* a revision set to their highest-numbered revision, and nothing else changed
Backfilled(old, new) ==
    /\ Len(new.source) = Len(old.source)
    /\ \A i \in 1..Len(old.source) :
          LET revs == {r \in 1..Len(old.revision) : old.revision[r].source_id = i}
          IN  /\ new.source[i] =
                    [old.source[i] EXCEPT !.current_revision_id = new.source[i].current_revision_id]
              /\ old.source[i].current_revision_id # None =>
                    new.source[i].current_revision_id = old.source[i].current_revision_id
              /\ (old.source[i].current_revision_id = None /\ revs # {}) =>
                    new.source[i].current_revision_id = Some(Max(revs))
              /\ (old.source[i].current_revision_id = None /\ revs = {}) =>
                    new.source[i].current_revision_id = None
    /\ new.revision = old.revision
    /\ new.doc = old.doc
    /\ new.doc_fts = old.doc_fts
    /\ new.timeline = old.timeline

\* C23: after db_connect on an existing store, every source whose pointer was
\* NULL and that has a revision points to its highest-numbered revision, the
\* sources whose pointer was set keep it, and no row of source, revision, doc,
\* the index or the timeline is lost or altered otherwise; the connection and the
\* committed store both show it.
C23_PointerBackfill ==
    (arg # None /\ pc = "start") =>
        /\ Backfilled(Get(arg).store, committed)
        /\ db = committed

\* db_connect has run on a store with a source whose pointer was NULL and that
\* has a revision, a source whose pointer was set to a revision that is not its
\* highest, and a source without revision
C23_Witness ==
    /\ arg # None
    /\ pc = "start"
    /\ LET old == Get(arg).store
       IN  \E i, j, k \in 1..Len(old.source) :
              /\ old.source[i].current_revision_id = None
              /\ committed.source[i].current_revision_id # None
              /\ old.source[j].current_revision_id # None
              /\ old.source[j].current_revision_id # latest_revision(old, j)
              /\ latest_revision(old, k) = None
              /\ committed.source[k].current_revision_id = None

\* ------------------------------------------------------------------------
\* Properties of the source table
\* ------------------------------------------------------------------------

\* no two source rows of d have the same URI
UniqueUris(d) ==
    \A i, j \in 1..Len(d.source) : d.source[i].uri = d.source[j].uri => i = j

\* every source row of a is a row of b, under the same id and URI
SourcesKept(a, b) ==
    /\ Len(a.source) <= Len(b.source)
    /\ \A i \in 1..Len(a.source) : b.source[i].uri = a.source[i].uri

\* the step is an ingest_file call that returns; it has found or created the one
\* source of its URI and has given every revision it wrote to that source
CallUsesSourceOfUri ==
    LET u    == UriOf(last'.path, last'.root)
        had  == {i \in 1..Len(db.source) : db.source[i].uri = u}
        has  == {i \in 1..Len(db'.source) : db'.source[i].uri = u}
    IN  /\ Cardinality(has) = 1
        /\ had # {} => (has = had /\ Len(db'.source) = Len(db.source))
        /\ had = {} => has = {Len(db.source) + 1}
        /\ \A r \in (Len(db.revision) + 1)..Len(db'.revision) :
              db'.revision[r].source_id \in has

\* C24: in every state, in the batch's store and in the committed one, no two
\* source rows have the same URI; an ingest_file call that returns creates the
\* source of its URI when there is none and otherwise uses the existing row, under
\* the same id; and no step removes a source row or changes its URI (the rollback
\* of a batch drops the rows that batch had inserted, none of them committed).
C24_OneSourcePerUri ==
    [][/\ UniqueUris(db') /\ UniqueUris(committed')
       /\ SourcesKept(committed, committed')
       /\ ~Aborts => SourcesKept(db, db')
       /\ (IsCall /\ last'.res \in Returned) => CallUsesSourceOfUri]_vars

\* a file's second revision, written in a later batch than the first, belongs to
\* the one source the first call created
C24_Witness ==
    /\ pc = "ingest"
    /\ last.wrote = 1
    /\ last.before = 1
    /\ Len(committed.revision) = 1
    /\ Len(db.source) = 1
    /\ db.source[1].uri = UriOf(last.path, last.root)
    /\ db.revision[1].source_id = 1
    /\ db.revision[2].source_id = 1

\* ------------------------------------------------------------------------
\* Properties of the dates stored
\* ------------------------------------------------------------------------

\* s is YYYY-MM-DD and names a calendar date
IsoValid(s) ==
    /\ Len(s) = 10
    /\ DigitsAt(s, 1, 4) /\ s[5] = "-" /\ DigitsAt(s, 6, 2) /\ s[8] = "-" /\ DigitsAt(s, 9, 2)
    /\ ValidDate(ToInt(SubSeq(s, 1, 4)), ToInt(SubSeq(s, 6, 7)), ToInt(SubSeq(s, 9, 10)))

\* C25, as stated: in every state, after any ingest_file call and any rebuild,
\* the date in the receipt metadata of every document and the date of every
\* timeline row, receipt or diary_entry, is a calendar date.
C25_DatesValid ==
    /\ \A i \in 1..Len(db.doc) :
          HasDatedReceipt(db.doc[i]) => IsoValid(Get(db.doc[i].json.receipt.date))
    /\ \A k \in 1..Len(db.timeline) : IsoValid(db.timeline[k].date)

\* the dates the two parsers give are calendar dates: the documents whose receipt
\* date is none are those whose date came from the file name
ParsedDatesValid ==
    /\ \A i \in 1..Len(db.doc) :
          (HasDatedReceipt(db.doc[i]) /\ ~IsoValid(Get(db.doc[i].json.receipt.date)))
              => /\ parse_receipt_fields(db.doc[i].text).date = None
                 /\ db.doc[i].json.receipt.date = NameDate(db.doc[i].title)
    /\ \A k \in 1..Len(db.timeline) :
          db.timeline[k].kind = "diary_entry" => IsoValid(db.timeline[k].date)

\* ------------------------------------------------------------------------
\* Properties of the bodies and titles of diary entries
\* ------------------------------------------------------------------------

\* the lines the k-th entry of a call on lines was open for: those after the k-th
\* valid date line, up to the next date line or the end of the text
OpenLines(lines, V, k) == LinesAfter(lines, NthValid(V, k))

\* C26, as stated: the body of each entry is exactly the lines read while it was
\* open, joined by newlines, blank lines at its start and end included; the
\* lines before the first date line are in no entry and the entry open at the
\* end of the input is returned.
C26_BodyVerbatim ==
    ret # None =>
        \A es \in {Get(ret)} : \A lines \in {splitlines(arg.text)} :
        \A V \in {ValidDateLines(lines, arg)} :
            /\ Len(es) = Cardinality(V)
            /\ \A k \in 1..Len(es) : es[k].body = join(OpenLines(lines, V, k))

\* C26, amended: the body of each entry is the lines read while it was open,
\* joined by newlines, without the white space (blank lines included) at the
\* start and at the end of the whole; between its first and its last non-blank
\* character the body is these lines as they are.  The lines before the first
\* date line are in no entry, and the entry open at the end of the input is
\* returned as the last one.
C26_BodyStripped ==
    ret # None =>
        \A es \in {Get(ret)} : \A lines \in {splitlines(arg.text)} :
        \A V \in {ValidDateLines(lines, arg)} :
            /\ Len(es) = Cardinality(V)
            /\ V = {} => es = <<>>
            /\ \A k \in 1..Len(es) : \A raw \in {join(OpenLines(lines, V, k))} :
                  /\ es[k].body = strip(raw)
                  /\ \E i \in 1..(Len(raw) + 1) :
                        es[k].body = SubSeq(raw, i, i + Len(es[k].body) - 1)
            /\ (V # {} /\ Max(V) < Len(lines)) =>
                  es[Len(es)].body =
                      strip(join(SubSeq(lines, Max(V) + 1,
                                        Min({j \in (Max(V) + 1)..Len(lines) :
                                               IsDateLine(lines[j])}
                                            \cup {Len(lines) + 1}) - 1)))

\* a call on a text line, a date line, a blank line and a text line has returned
\* one entry, whose body is the last line alone
C26_Witness ==
    /\ ret # None
    /\ arg # None
    /\ splitlines(arg.text) = << <<"H", "e", "l", "l", "o">>, <<"1", "4", ".", "3", ".">>,
                                 <<>>, <<"W", "o", "r", "l", "d">> >>
    /\ Len(Get(ret)) = 1
    /\ Get(ret)[1].body = <<"W", "o", "r", "l", "d">>

\* the first line of the text s that is not empty
FirstNonEmptyLine(s) ==
    LET ls == splitlines(s)
    IN  ls[Min({j \in 1..Len(ls) : ls[j] # <<>>})]

\* C27: every entry returned has a title of 1 to 160 characters: the first
\* non-empty line of its body with its white space normalized, cut to 160
\* characters, or, when the body is empty, "Merkinta " and the ISO date of the
\* entry.
C27_Title ==
    ret # None =>
        \A k \in 1..Len(Get(ret)) :
            LET e == Get(ret)[k]
            IN  /\ Len(e.title) \in 1..TitleMax
                /\ e.body # <<>> =>
                      e.title = Prefix(normalize_ws(FirstNonEmptyLine(e.body)), TitleMax)
                /\ e.body = <<>> =>
                      /\ e.title = Merkinta \o isoformat(e.date.y, e.date.m, e.date.d)
                      /\ Len(e.title) = Len(Merkinta) + 10

\* a call has returned an entry whose first line is longer than a title, with a
\* title of 160 characters, and an entry with an empty body
C27_Witness ==
    /\ ret # None
    /\ \E j, k \in 1..Len(Get(ret)) :
          /\ Len(Get(ret)[j].body) > TitleMax
          /\ Len(Get(ret)[j].title) = TitleMax
          /\ Get(ret)[j].title # Prefix(Get(ret)[j].body, TitleMax)
          /\ Get(ret)[k].body = <<>>

\* ------------------------------------------------------------------------
\* Properties of the years of diary entries
\* ------------------------------------------------------------------------

\* the year the claim gives a date line in a call with arguments a: the year
\* written in the line, else the default year of the caller, else the current year
ClaimedYear(line, a) ==
    LET m == Get(DATE_LINE_RE(strip(line)))
    IN  IF m.y # None THEN ToInt(Get(m.y))
        ELSE IF a.default_year # None THEN Get(a.default_year)
        ELSE a.today

\* the date lines of lines that name a calendar date in their claimed year
ClaimedValid(lines, a) ==
    {i \in 1..Len(lines) :
        \E m \in {DATE_LINE_RE(strip(lines[i]))} :
            /\ m # None
            /\ ValidDate(ClaimedYear(lines[i], a), ToInt(Get(m).mo), ToInt(Get(m).d))}

\* C28: the entries returned are those of the date lines that name a calendar
\* date in the year written in the line or, for a line without a year, in the
\* default year of the caller when one is given and in the current year when
\* none is; each entry has that year, so that a default year never replaces a
\* year written in the line.
C28_YearOfEntry ==
    ret # None =>
        \A es \in {Get(ret)} : \A lines \in {splitlines(arg.text)} :
        \A V \in {ClaimedValid(lines, arg)} :
            /\ Len(es) = Cardinality(V)
            /\ \A k \in 1..Len(es) : es[k].date.y = ClaimedYear(lines[NthValid(V, k)], arg)

\* a call with default year 2020 on a text with a date line of the year 2019 and
\* a date line without a year, 29.2., which is a calendar date in 2020 and in no
\* current year of the model, has returned an entry of 2019 and one of 2020
C28_Witness ==
    /\ ret # None
    /\ arg.default_year = Some(2020)
    /\ Len(Get(ret)) = 2
    /\ Get(ret)[1].date.y = 2019
    /\ Get(ret)[2].date = [y |-> 2020, m |-> 2, d |-> 29]

\* ------------------------------------------------------------------------
\* Properties of the stored text
\* ------------------------------------------------------------------------

\* C29: an ingest_file call on a file that writes a revision of status ok adds
\* one document, of that revision, whose text is exactly the text extract_text
\* returned for the file, whether or not the receipt parser ran on it; and no
\* step, a later call or rebuild_timeline, changes a revision or a document
\* that is stored.
C29_TextVerbatim ==
    [][/\ IsPrefixOf(db.revision, db'.revision)
       /\ IsPrefixOf(db.doc, db'.doc)
       /\ (pc' = "ingest" /\ last'.res = "ok") =>
             /\ Len(db'.revision) = Len(db.revision) + 1
             /\ Len(db'.doc) = Len(db.doc) + 1
             /\ db'.revision[Len(db'.revision)].status = "ok"
             /\ db'.doc[Len(db'.doc)].revision_id = Len(db'.revision)
             /\ db'.doc[Len(db'.doc)].text =
                   extract_text(last'.path, last'.obs.data, last'.pypdf).text
             /\ [rowid |-> Len(db'.doc), title |-> PathName(last'.path),
                 text |-> extract_text(last'.path, last'.obs.data, last'.pypdf).text]
                    \in db'.doc_fts]_vars

\* after a rebuild the store holds, as written, the text with white space around
\* an invalid date that the receipt parser ran on and normalized for itself
C29_Witness ==
    /\ pc = "rebuilt"
    /\ last.res = "ok"
    /\ last.obs.data = BadDate1
    /\ db.doc[Len(db.doc)].text = BadDate1
    /\ "receipt" \in DOMAIN db.doc[Len(db.doc)].json
    /\ db.doc[Len(db.doc)].json.receipt.raw_lines = << strip(BadDate1) >>
    /\ db.doc[Len(db.doc)].json.receipt.date = None

\* ------------------------------------------------------------------------
\* Properties of a skipped call
\* ------------------------------------------------------------------------

\* the step is an ingest_file call that the change detector ended
SkippedCall == IsCall /\ last'.res = "skipped"

WrittenSource(d, call) == d.revision[call.before + call.wrote].source_id

\* C31: two files with different absolute paths are two different sources, with
\* or without a scan root and under the scan root or outside it: when a call
\* that adds a revision for one file follows a call that added a revision for a
\* file with another path, the two revisions belong to different sources.
C31_PathsAreSources ==
    [][(/\ IsCall
        /\ last # NoCall
        /\ last.wrote > 0
        /\ last'.wrote > 0
        /\ last'.path # last.path
        /\ last.before + last.wrote <= Len(db.revision))
          => WrittenSource(db', last') # WrittenSource(db, last)]_vars

\* the variant a lower-cased extension stands for
VariantOf(ext) ==
    IF ext \in {<<".", "t", "x", "t">>, <<".", "m", "d">>, <<".", "c", "s", "v">>, <<".", "l", "o", "g">>}
    THEN "txt"
    ELSE IF ext = <<".", "o", "d", "t">> THEN "odt"
    ELSE IF ext = <<".", "p", "d", "f">> THEN "pdf"
    ELSE IF ext \in {<<".", "j", "p", "g">>, <<".", "j", "p", "e", "g">>, <<".", "p", "n", "g">>,
                     <<".", "t", "i", "f">>, <<".", "t", "i", "f", "f">>}
    THEN "ocr"
    ELSE "txt-fallback"

\* the extension of a file name: the part from its last dot on, when that dot is
\* neither the first nor the last character of the name; else none
ExtensionOf(name) ==
    IF \E i \in 2..(Len(name) - 1) : name[i] = "."
    THEN SubSeq(name, Max({i \in 2..(Len(name) - 1) : name[i] = "."}), Len(name))
    ELSE <<>>

\* C32: extract_text selects the extractor from the lower-cased extension of the
\* file name alone: a call that returns gives the identity txt, odt, pdf, ocr or
\* txt-fallback that the extension stands for, whatever the data and the
\* libraries; only the odt, pdf and ocr variants raise; txt and txt-fallback
\* return the plain-text decoding of the data with the encoding used.
C32_ExtractorByExtension ==
    ret # None =>
        \A r \in {Get(ret)} : \A v \in {VariantOf(lower(ExtensionOf(arg.name)))} :
            /\ ~r.raised => r.extractor = v
            /\ r.raised => v \in {"odt", "pdf", "ocr"}
            /\ v \in {"txt", "txt-fallback"} =>
                  /\ r.text = arg.data
                  /\ r.enc = (IF Latin1Byte \in Range(arg.data) THEN "latin-1" ELSE "utf-8")
            /\ \A data \in ExtractData, lib \in BOOLEAN :
                  \A r2 \in {extract_text(RootDir \o <<arg.name>>, data, lib)} :
                      ~r2.raised => r2.extractor = v

\* a call on a name without extension and on bytes that are not UTF-8 has
\* returned the text with the identity txt-fallback and the encoding latin-1
C32_Witness ==
    /\ ret # None
    /\ arg.name = <<"a">>
    /\ arg.data = Latin1Note
    /\ ~Get(ret).raised
    /\ Get(ret).extractor = "txt-fallback"
    /\ Get(ret).enc = "latin-1"

\* the call has ended
OpenAIDone == Get(frame).pc \in {"returned", "raised"}

\* C33: call_openai_responses ends, after at most max_retries + 1 requests: it
\* sends no request after a successful one, returns only the text of a
\* successful response, and raises OpenAIError when max_retries + 1 requests
\* have failed.
C33_BoundedAttempts ==
    /\ <>OpenAIDone
    /\ [](/\ Get(frame).requests <= arg.max_retries + 1
          /\ Get(frame).pc \in {"after", "returned"} =>
                /\ Get(frame).body # None
                /\ Get(frame).last_err = None
          /\ Get(frame).pc = "returned" =>
                /\ Get(frame).body = Some("text")
                /\ ret = Some("output_text")
          /\ (Get(frame).requests = arg.max_retries + 1 /\ Get(frame).last_err # None) =>
                /\ Get(frame).pc = "raised"
                /\ ret = Some("OpenAIError"))
    /\ [][Get(frame).body # None => Get(frame').requests = Get(frame).requests]_vars

\* a call with max_retries 2 has returned the text of its third request after
\* two failures
C33_Witness ==
    /\ frame # None
    /\ arg.max_retries = 2
    /\ Get(frame).pc = "returned"
    /\ Get(frame).requests = 3
    /\ Len(Get(frame).sleeps) = 2

\* the step is a pass of the loop whose request ended in an HTTP error
HttpErrorPass ==
    /\ Get(frame').requests = Get(frame).requests + 1
    /\ Get(frame').last_err # None
    /\ Get(Get(frame').last_err).kind = "http"

\* C34: a request that ends in an HTTP error is retried exactly when its status
\* is 429, 500, 502, 503 or 504 and attempts remain (attempt < max_retries), after
\* a wait of base_delay * 2^attempt; on any other HTTP status, or with no attempt
\* left, the call raises OpenAIError at once and sends nothing more; the waits
\* slept so far are base_delay * 2^k for k = 0, 1, ... and strictly increasing.
C34_RetryPolicy ==
    /\ [][HttpErrorPass =>
            IF /\ Get(Get(frame').last_err).code \in {429, 500, 502, 503, 504}
               /\ Get(frame).attempt < arg.max_retries
            THEN /\ Get(frame').pc = "loop"
                 /\ Get(frame').attempt = Get(frame).attempt + 1
                 /\ Get(frame').sleeps =
                       Append(Get(frame).sleeps, arg.base_delay * 2^(Get(frame).attempt))
            ELSE /\ Get(frame').pc = "raised"
                 /\ ret' = Some("OpenAIError")
                 /\ Get(frame').sleeps = Get(frame).sleeps]_vars
    /\ [][Get(frame).pc # "raised"]_vars
    /\ [](\A k \in 1..Len(Get(frame).sleeps) :
            /\ Get(frame).sleeps[k] = arg.base_delay * 2^(k - 1)
            /\ k > 1 => Get(frame).sleeps[k] > Get(frame).sleeps[k - 1])

\* a call has waited base_delay and twice base_delay after two retried errors
\* and has raised on the status 404 of its third request
C34_Witness ==
    /\ frame # None
    /\ Get(frame).pc = "raised"
    /\ Get(frame).requests = 3
    /\ Len(Get(frame).sleeps) = 2
    /\ Get(frame).last_err # None
    /\ Get(Get(frame).last_err).code = 404
    /\ arg.max_retries > 2

\* the lines of the chunks cs, taken in order
RECURSIVE LinesOfChunks(_)
LinesOfChunks(cs) ==
    IF cs = <<>> THEN <<>> ELSE splitlines(cs[1]) \o LinesOfChunks(Tail(cs))

\* C35: chunk_text loses and duplicates nothing: the lines of the returned
\* chunks, taken in order, are the lines of the text; no chunk is empty; and a
\* chunk has at most max_chars characters unless it is a single line longer than
\* max_chars.
C35_ChunksExact ==
    ret # None =>
        \A cs \in {Get(ret)} :
            /\ LinesOfChunks(cs) = splitlines(arg.text)
            /\ \A i \in 1..Len(cs) : cs[i] # <<>>
            /\ \A i \in 1..Len(cs) :
                  \/ Len(cs[i]) <= arg.max_chars
                  \/ /\ Len(splitlines(cs[i])) = 1
                     /\ Len(splitlines(cs[i])[1]) > arg.max_chars

\* what does hold: there is at least one chunk, the chunks are the text itself
\* or, joined by newlines, the lines of the text joined by newlines, and the
\* bound on the size of a chunk
ChunksRejoin ==
    ret # None =>
        \A cs \in {Get(ret)} :
            /\ cs # <<>>
            /\ cs = <<arg.text>> \/ join(cs) = join(splitlines(arg.text))
            /\ \A i \in 1..Len(cs) :
                  \/ Len(cs[i]) <= arg.max_chars
                  \/ \A j \in 1..Len(cs[i]) : cs[i][j] # "\n"

\* the directory d is the root or lies under it through directories alone
RECURSIVE RealUnderRoot(_, _)
RealUnderRoot(fs, d) ==
    /\ fs[d].kind = "dir"
    /\ d = 1 \/ RealUnderRoot(fs, fs[d].parent)

\* how often the entry e was yielded
TimesYielded(st, e) == Cardinality({i \in 1..Len(st.yielded) : st.yielded[i].entry = e})

====
